---- MODULE Spec2Model ----
(***************************************************************************)
(* Inkwell: the parameter-composition engine (EmailRequest, build_prompt), *)
(* the system role templates (get_prompt), the response parser             *)
(* (parse_response), the risk scorer (calculate_spam_score) and the        *)
(* service that runs them for each request (EmailService.generate).        *)
(*                                                                         *)
(* Text is a sequence of one-character strings, so that substring tests,   *)
(* case conversion, splitting and JSON decoding are computed character by  *)
(* character.  Str turns such a sequence into a TLA+ string where the code *)
(* formats a message.                                                      *)
(***************************************************************************)
EXTENDS Integers, Sequences, FiniteSets, TLC

VARIABLES pc, raw, request, parts, prompt, content, response, subject, body, spam,
          system_prompt, api_key, client, clients_created, running, calls

vars == <<pc, raw, request, parts, prompt, content, response, subject, body, spam,
          system_prompt, api_key, client, clients_created, running, calls>>

(***************************************************************************)
(* Python str operations, over ASCII text.                                 *)
(***************************************************************************)
UpperLetters == <<"A","B","C","D","E","F","G","H","I","J","K","L","M",
                  "N","O","P","Q","R","S","T","U","V","W","X","Y","Z">>

LowerLetters == <<"a","b","c","d","e","f","g","h","i","j","k","l","m",
                  "n","o","p","q","r","s","t","u","v","w","x","y","z">>

\* c.isupper()
isupper(c) == \E i \in 1..Len(UpperLetters) : UpperLetters[i] = c

\* one character of s.lower()
lower_char(c) ==
    IF isupper(c)
    THEN LowerLetters[CHOOSE i \in 1..Len(UpperLetters) : UpperLetters[i] = c]
    ELSE c

\* s.lower()
lower(s) == [i \in 1..Len(s) |-> lower_char(s[i])]

\* p occurs in t starting at index i
MatchAt(p, t, i) ==
    /\ i + Len(p) - 1 <= Len(t)
    /\ \A k \in 1..Len(p) : t[i + k - 1] = p[k]

\* p in t
Contains(p, t) == \E i \in 1..(Len(t) - Len(p) + 1) : MatchAt(p, t, i)

\* t.startswith(p)
startswith(t, p) == MatchAt(p, t, 1)

RECURSIVE CountFrom(_, _, _)
CountFrom(p, t, i) ==
    IF i + Len(p) - 1 > Len(t) THEN 0
    ELSE IF MatchAt(p, t, i) THEN 1 + CountFrom(p, t, i + Len(p))
    ELSE CountFrom(p, t, i + 1)

\* t.count(p): non-overlapping occurrences, scanning left to right
count(t, p) == CountFrom(p, t, 1)

RECURSIVE Str(_)
\* the text as one string, for formatted messages
Str(s) == IF s = <<>> THEN "" ELSE Head(s) \o Str(Tail(s))

RECURSIVE Join(_, _)
\* sep.join(items), items being strings
Join(items, sep) ==
    IF items = <<>> THEN ""
    ELSE IF Len(items) = 1 THEN items[1]
    ELSE items[1] \o sep \o Join(Tail(items), sep)

(***************************************************************************)
(* The risk scorer: calculate_spam_score (models.py).                      *)
(***************************************************************************)
spam_triggers_high == <<
    <<"a","c","t"," ","n","o","w">>, <<"l","i","m","i","t","e","d"," ","t","i","m","e">>, <<"u","r","g","e","n","t">>, <<"i","m","m","e","d","i","a","t","e"," ","a","c","t","i","o","n">>,
    <<"c","l","i","c","k"," ","h","e","r","e">>, <<"c","l","i","c","k"," ","b","e","l","o","w">>, <<"b","u","y"," ","n","o","w">>, <<"o","r","d","e","r"," ","n","o","w">>,
    <<"f","r","e","e"," ","m","o","n","e","y">>, <<"c","a","s","h"," ","b","o","n","u","s">>, <<"w","i","n","n","e","r">>, <<"y","o","u"," ","w","o","n">>,
    <<"c","o","n","g","r","a","t","u","l","a","t","i","o","n","s">>, <<"1","0","0","%"," ","f","r","e","e">>, <<"r","i","s","k"," ","f","r","e","e">>, <<"n","o"," ","o","b","l","i","g","a","t","i","o","n">>,
    <<"d","o","u","b","l","e"," ","y","o","u","r">>, <<"e","a","r","n"," ","e","x","t","r","a">>, <<"m","a","k","e"," ","m","o","n","e","y"," ","f","a","s","t">> >>

spam_triggers_medium == <<
    <<"s","p","e","c","i","a","l"," ","o","f","f","e","r">>, <<"e","x","c","l","u","s","i","v","e"," ","d","e","a","l">>, <<"d","i","s","c","o","u","n","t">>, <<"s","a","v","e"," ","b","i","g">>,
    <<"l","o","w","e","s","t"," ","p","r","i","c","e">>, <<"b","e","s","t"," ","p","r","i","c","e">>, <<"c","h","e","a","p">>, <<"b","a","r","g","a","i","n">>,
    <<"g","u","a","r","a","n","t","e","e">>, <<"n","o"," ","q","u","e","s","t","i","o","n","s"," ","a","s","k","e","d">>, <<"s","a","t","i","s","f","a","c","t","i","o","n"," ","g","u","a","r","a","n","t","e","e","d">>,
    <<"c","a","l","l"," ","n","o","w">>, <<"a","p","p","l","y"," ","n","o","w">>, <<"s","i","g","n"," ","u","p"," ","f","r","e","e">>, <<"s","u","b","s","c","r","i","b","e"," ","n","o","w">>,
    <<"d","e","a","r"," ","f","r","i","e","n","d">>, <<"d","e","a","r"," ","c","u","s","t","o","m","e","r">> >>

spam_triggers_low == <<
    <<"f","r","e","e">>, <<"b","o","n","u","s">>, <<"o","f","f","e","r">>, <<"d","e","a","l">>, <<"p","r","o","m","o">>,
    <<"!","!","!">>, <<"?","?","?">>, <<"a","l","l"," ","c","a","p","s">>, <<"$","$","$">> >>

HighPoints == 10
MediumPoints == 5
LowPoints == 2
CapitalsPoints == 15
ExclamationPoints == 10
PunctuationPoints == 10
EmptyReplyPoints == 5
ForwardPoints == 3
UrlPoints == 10
UrlLimit == 3
CapitalsMinLen == 5
ScoreCap == 100

\* ScoreText without the lower-casing
ScoreTextCased(subj, bdy) == subj \o <<" ">> \o bdy

\* ScoreText with the subject followed directly by the body
ScoreTextDirect(subj, bdy) == lower(subj \o bdy)

\* text = (subject + " " + body).lower()
ScoreText(subj, bdy) == lower(subj \o <<" ">> \o bdy)

\* sum(1 for c in subject if c.isupper())
UpperCount(subj) == Cardinality({i \in 1..Len(subj) : isupper(subj[i])})

\* ExcessiveCapitals with the ratio compared by >= 0.5
ExcessiveCapitalsFromHalf(subj) ==
    /\ 2 * UpperCount(subj) >= (IF Len(subj) > 1 THEN Len(subj) ELSE 1)
    /\ Len(subj) > CapitalsMinLen

\* upper_ratio > 0.5 and len(subject) > 5, the ratio being count / max(len, 1)
ExcessiveCapitals(subj) ==
    /\ 2 * UpperCount(subj) > (IF Len(subj) > 1 THEN Len(subj) ELSE 1)
    /\ Len(subj) > CapitalsMinLen

MultipleExclamations(subj) == count(subj, <<"!">>) > 1

ExcessivePunctuation(text) == Contains(<<"!","!","!">>, text) \/ Contains(<<"?","?","?">>, text)

EmptyReply(subj, bdy) == startswith(lower(subj), <<"r","e",":">>) /\ bdy = <<>>

\* Forwarded that knows the prefix "fw:" only
ForwardedFwOnly(subj) == startswith(lower(subj), <<"f","w",":">>)

Forwarded(subj) ==
    startswith(lower(subj), <<"f","w",":">>) \/ startswith(lower(subj), <<"f","w","d",":">>)

url_count(text) ==
    count(text, <<"h","t","t","p",":","/","/">>) + count(text, <<"h","t","t","p","s",":","/","/">>) + count(text, <<"w","w","w",".">>)

\* score += points; warnings.append(w) for each w of warning
Add(acc, points, warning) ==
    [score |-> acc.score + points, warnings |-> acc.warnings \o warning]

RECURSIVE ScanTriggersCounting(_, _, _, _, _, _)
\* ScanTriggers with the points added once per occurrence of the trigger
ScanTriggersCounting(triggers, text, points, warn, label, acc) ==
    IF triggers = <<>> THEN acc
    ELSE ScanTriggersCounting(Tail(triggers), text, points, warn, label,
             IF Contains(Head(triggers), text)
             THEN Add(acc, points * count(text, Head(triggers)),
                      IF warn THEN <<label \o Str(Head(triggers)) \o "'">>
                      ELSE <<>>)
             ELSE acc)

RECURSIVE ScanTriggers(_, _, _, _, _, _)
\* for trigger in triggers: if trigger in text: score += points
\*                                             [warnings.append(label 'trigger')]
ScanTriggers(triggers, text, points, warn, label, acc) ==
    IF triggers = <<>> THEN acc
    ELSE ScanTriggers(Tail(triggers), text, points, warn, label,
             IF Contains(Head(triggers), text)
             THEN Add(acc, points,
                      IF warn THEN <<label \o Str(Head(triggers)) \o "'">>
                      ELSE <<>>)
             ELSE acc)

\* CapScore with the cap left out
CapScoreMissing(score) == score

\* score = min(score, 100)
CapScore(score) == IF score < ScoreCap THEN score ELSE ScoreCap

\* AfterPhrases with the Medium loop run before the High loop
AfterPhrasesMediumFirst(text) ==
    LET medium == ScanTriggers(spam_triggers_medium, text, MediumPoints, TRUE,
                               "Medium-risk phrase: '",
                               [score |-> 0, warnings |-> <<>>])
        high == ScanTriggers(spam_triggers_high, text, HighPoints, TRUE,
                             "High-risk phrase: '", medium)
    IN ScanTriggers(spam_triggers_low, text, LowPoints, FALSE, "", high)

\* the three trigger loops, lines 522-534
AfterPhrases(text) ==
    LET high == ScanTriggers(spam_triggers_high, text, HighPoints, TRUE,
                             "High-risk phrase: '",
                             [score |-> 0, warnings |-> <<>>])
        medium == ScanTriggers(spam_triggers_medium, text, MediumPoints, TRUE,
                               "Medium-risk phrase: '", high)
    IN ScanTriggers(spam_triggers_low, text, LowPoints, FALSE, "", medium)

\* the structural checks, lines 536-563, in the order the code makes them
AfterChecks(subj, bdy, text, acc) ==
    LET caps == IF ExcessiveCapitals(subj)
                THEN Add(acc, CapitalsPoints,
                         <<"Excessive capitals in subject line">>)
                ELSE acc
        excl == IF MultipleExclamations(subj)
                THEN Add(caps, ExclamationPoints,
                         <<"Multiple exclamation marks in subject">>)
                ELSE caps
        punct == IF ExcessivePunctuation(text)
                 THEN Add(excl, PunctuationPoints,
                          <<"Excessive punctuation detected">>)
                 ELSE excl
        reply == IF EmptyReply(subj, bdy)
                 THEN Add(punct, EmptyReplyPoints, <<"Empty reply email">>)
                 ELSE punct
        fwd == IF Forwarded(subj) THEN Add(reply, ForwardPoints, <<>>)
               ELSE reply
    IN IF url_count(text) > UrlLimit
       THEN Add(fwd, UrlPoints,
                <<"High URL density (" \o ToString(url_count(text))
                    \o " links)">>)
       ELSE fwd

\* score and warnings as they stand before the cap of line 566
Accumulated(subj, bdy) ==
    LET text == ScoreText(subj, bdy)
    IN AfterChecks(subj, bdy, text, AfterPhrases(text))

\* calculate_spam_score(subject, body) -> (score, warnings)
calculate_spam_score(subj, bdy) ==
    LET acc == Accumulated(subj, bdy)
    IN [score |-> CapScore(acc.score), warnings |-> acc.warnings]

NoSpam == [score |-> 0, warnings |-> <<>>]

(***************************************************************************)
(* EmailRequest (models.py): the enumerations, the validated fields, the   *)
(* level classifiers and the instruction catalogs.                         *)
(***************************************************************************)
EmailPreset ==
    {"general", "application", "introduction", "cold_email", "follow_up"}

SalutationStyle == {"none", "formal", "standard", "friendly", "casual"}

SignOffStyle ==
    {"none", "formal", "professional", "friendly", "casual", "warm"}

Language ==
    {"english", "spanish", "french", "german", "italian", "portuguese",
     "dutch", "japanese", "chinese", "korean", "hindi", "arabic"}

AudienceType ==
    {"general", "manager", "executive", "peer", "subordinate", "client",
     "vendor", "recruiter", "professor", "student"}

PurposeTag ==
    {"general", "request", "inform", "persuade", "thank", "apologize",
     "negotiate", "decline", "introduce", "follow_up"}

ResponseType ==
    {"none", "accept", "decline", "counter_offer", "request_clarification",
     "acknowledge", "defer"}

IndustryContext ==
    {"general", "tech", "finance", "legal", "medical", "academic", "sales",
     "hr", "marketing", "consulting"}

RecipientRelationship ==
    {"unknown", "first_contact", "new_acquaintance", "established",
     "close_colleague", "internal", "external"}

\* the five categories of each slider axis, lowest first
ToneLevel == <<"very_formal", "formal", "neutral", "friendly", "casual">>

LengthLevel ==
    <<"very_brief", "concise", "moderate", "detailed", "comprehensive">>

UrgencyLevel == <<"none", "low", "moderate", "high", "critical">>

CTAStrength == <<"subtle", "gentle", "moderate", "direct", "strong">>

PolitenessLevel ==
    <<"blunt", "direct", "polite", "very_polite", "deferential">>

\* Field(ge=0, le=100)
SliderMin == 0
SliderMax == 100

SliderFields ==
    {"tone", "length", "temperature", "urgency", "cta_strength", "politeness"}

\* the enumeration each categorical field is declared with
EnumOf ==
    [preset |-> EmailPreset,
     salutation_style |-> SalutationStyle,
     sign_off_style |-> SignOffStyle,
     language |-> Language,
     audience_type |-> AudienceType,
     purpose |-> PurposeTag,
     response_type |-> ResponseType,
     industry |-> IndustryContext,
     recipient_relationship |-> RecipientRelationship]

\* SliderOk without the le=100 constraint
SliderOkNoUpper(v) == v >= SliderMin

\* the ge/le constraint of one slider field
SliderOk(v) == v >= SliderMin /\ v <= SliderMax

\* EnumOk for a field declared as a plain str
EnumOkAny(f, v) == TRUE

\* the enumeration constraint of one categorical field
EnumOk(f, v) == v \in EnumOf[f]

\* EmailRequest(**fields): pydantic validates every field and raises a
\* ValidationError when one fails; a valid request keeps the values given
ValidRequest(fields) ==
    /\ \A f \in SliderFields : SliderOk(fields[f])
    /\ \A f \in DOMAIN EnumOf : EnumOk(f, fields[f])

\* the field values a constructed request holds
RequestOf(fields) == fields

\* the defaults of the form handler generate_email (routes.py) and of the
\* model's own use_lists
FormDefaults ==
    [preset |-> "general",
     incoming_email |-> <<>>,
     recipient_name |-> <<>>,
     sender_name |-> <<>>,
     tone |-> 50,
     length |-> 50,
     temperature |-> 70,
     use_lists |-> FALSE,
     custom_instructions |-> <<>>,
     urgency |-> 0,
     cta_strength |-> 50,
     politeness |-> 50,
     salutation_style |-> "standard",
     sign_off_style |-> "professional",
     language |-> "english",
     audience_type |-> "general",
     purpose |-> "general",
     keywords_to_include |-> <<>>,
     response_type |-> "none",
     industry |-> "general",
     recipient_relationship |-> "unknown",
     include_attachment_reference |-> FALSE]

\* tone_level with each threshold compared by <= instead of <
tone_level_inclusive(r) ==
    IF r.tone <= 20 THEN ToneLevel[1]
    ELSE IF r.tone <= 40 THEN ToneLevel[2]
    ELSE IF r.tone <= 60 THEN ToneLevel[3]
    ELSE IF r.tone <= 80 THEN ToneLevel[4]
    ELSE ToneLevel[5]

tone_level(r) ==
    IF r.tone < 20 THEN ToneLevel[1]
    ELSE IF r.tone < 40 THEN ToneLevel[2]
    ELSE IF r.tone < 60 THEN ToneLevel[3]
    ELSE IF r.tone < 80 THEN ToneLevel[4]
    ELSE ToneLevel[5]

length_level(r) ==
    IF r.length < 20 THEN LengthLevel[1]
    ELSE IF r.length < 40 THEN LengthLevel[2]
    ELSE IF r.length < 60 THEN LengthLevel[3]
    ELSE IF r.length < 80 THEN LengthLevel[4]
    ELSE LengthLevel[5]

urgency_level(r) ==
    IF r.urgency < 20 THEN UrgencyLevel[1]
    ELSE IF r.urgency < 40 THEN UrgencyLevel[2]
    ELSE IF r.urgency < 60 THEN UrgencyLevel[3]
    ELSE IF r.urgency < 80 THEN UrgencyLevel[4]
    ELSE UrgencyLevel[5]

cta_strength_level(r) ==
    IF r.cta_strength < 20 THEN CTAStrength[1]
    ELSE IF r.cta_strength < 40 THEN CTAStrength[2]
    ELSE IF r.cta_strength < 60 THEN CTAStrength[3]
    ELSE IF r.cta_strength < 80 THEN CTAStrength[4]
    ELSE CTAStrength[5]

politeness_level(r) ==
    IF r.politeness < 20 THEN PolitenessLevel[1]
    ELSE IF r.politeness < 40 THEN PolitenessLevel[2]
    ELSE IF r.politeness < 60 THEN PolitenessLevel[3]
    ELSE IF r.politeness < 80 THEN PolitenessLevel[4]
    ELSE PolitenessLevel[5]

\* Python's None, the value of a catalog entry that yields no directive
None == "<None>"

\* the truth value of a description: None and "" are false
Truthy(d) == d # None /\ d # ""

tone_description(r) ==
    [very_formal |-> "very formal and professional",
     formal |-> "formal but approachable",
     neutral |-> "balanced and neutral",
     friendly |-> "friendly and conversational",
     casual |-> "casual and relaxed"][tone_level(r)]

length_description(r) ==
    [very_brief |-> "very brief (2-3 sentences)",
     concise |-> "concise (1 short paragraph)",
     moderate |-> "moderate (2-3 paragraphs)",
     detailed |-> "detailed (3-4 paragraphs)",
     comprehensive |-> "comprehensive and thorough (4+ paragraphs)"
    ][length_level(r)]

urgency_description(r) ==
    [none |-> None,
     low |-> "slightly time-sensitive, gently mention timing",
     moderate |-> "moderately urgent, clearly convey time importance",
     high |-> "high urgency, emphasize immediate attention needed",
     critical |-> "critical urgency, strongly emphasize this is time-critical and requires immediate action"
    ][urgency_level(r)]

cta_description(r) ==
    [subtle |-> "subtle and implied call-to-action, no direct ask",
     gentle |-> "gentle suggestion, soft ask",
     moderate |-> "clear but polite call-to-action",
     direct |-> "direct and explicit call-to-action",
     strong |-> "strong, assertive call-to-action with clear expectation of response"
    ][cta_strength_level(r)]

politeness_description(r) ==
    [blunt |-> "blunt and straightforward, minimal pleasantries",
     direct |-> "direct but not rude, minimal softening language",
     polite |-> "polite with appropriate courtesies",
     very_polite |-> "very polite with extra courtesies and softening language",
     deferential |-> "highly deferential, very respectful with formal courtesies"
    ][politeness_level(r)]

salutation_description(r) ==
    [none |-> "Do not include any greeting/salutation",
     formal |-> "Use formal salutation (Dear Mr./Ms./Dr. [Name])",
     standard |-> "Use standard salutation (Dear [Name])",
     friendly |-> "Use friendly salutation (Hi [Name] or Hello [Name])",
     casual |-> "Use casual salutation (Hey [Name])"][r.salutation_style]

sign_off_description(r) ==
    [none |-> "Do not include any sign-off or closing",
     formal |-> "Use formal sign-off (Sincerely, Respectfully, Yours faithfully)",
     professional |-> "Use professional sign-off (Best regards, Kind regards)",
     friendly |-> "Use friendly sign-off (Best, Thanks, Thank you)",
     casual |-> "Use casual sign-off (Cheers, Take care, Talk soon)",
     warm |-> "Use warm sign-off (Warm regards, Warmly, With appreciation)"
    ][r.sign_off_style]

language_description(r) ==
    [english |-> "English",
     spanish |-> "Spanish",
     french |-> "French",
     german |-> "German",
     italian |-> "Italian",
     portuguese |-> "Portuguese",
     dutch |-> "Dutch",
     japanese |-> "Japanese",
     chinese |-> "Chinese (Simplified)",
     korean |-> "Korean",
     hindi |-> "Hindi",
     arabic |-> "Arabic"][r.language]

audience_description(r) ==
    IF r.audience_type = "general" THEN None
    ELSE [general |-> None,
          manager |-> "writing to a manager/supervisor - be respectful of their time and position",
          executive |-> "writing to an executive/C-level - be concise, focus on impact and outcomes",
          peer |-> "writing to a peer/colleague - maintain professional but collegial tone",
          subordinate |-> "writing to a subordinate/team member - be clear and supportive",
          client |-> "writing to a client - be professional, service-oriented, and solution-focused",
          vendor |-> "writing to a vendor/supplier - be clear about requirements and expectations",
          recruiter |-> "writing to a recruiter - highlight relevant qualifications professionally",
          professor |-> "writing to a professor/academic - be respectful and scholarly",
          student |-> "writing to a student - be clear, helpful, and encouraging"
         ][r.audience_type]

purpose_description(r) ==
    IF r.purpose = "general" THEN None
    ELSE [general |-> None,
          request |-> "primary purpose is to request something - be clear about what you need",
          inform |-> "primary purpose is to inform/update - focus on clarity and key information",
          persuade |-> "primary purpose is to persuade - use compelling arguments and benefits",
          thank |-> "primary purpose is to thank - be sincere and specific about gratitude",
          apologize |-> "primary purpose is to apologize - be sincere, take responsibility, offer resolution",
          negotiate |-> "primary purpose is to negotiate - be diplomatic, present options, seek win-win",
          decline |-> "primary purpose is to decline - be polite but firm, offer alternatives if possible",
          introduce |-> "primary purpose is to introduce yourself/someone - be memorable and establish relevance",
          follow_up |-> "primary purpose is to follow up - reference previous interaction, add value"
         ][r.purpose]

response_type_description(r) ==
    IF r.response_type = "none" THEN None
    ELSE [none |-> None,
          accept |-> "this is an acceptance response - confirm clearly and express appreciation",
          decline |-> "this is a decline response - be polite but clear, offer alternatives if appropriate",
          counter_offer |-> "this is a counter-offer response - acknowledge original, present alternative professionally",
          request_clarification |-> "this is a clarification request - be specific about what needs clarification",
          acknowledge |-> "this is an acknowledgment response - confirm receipt and next steps if any",
          defer |-> "this is a deferral response - explain timeline and commit to follow-up"
         ][r.response_type]

industry_description(r) ==
    IF r.industry = "general" THEN None
    ELSE [general |-> None,
          tech |-> "tech/software industry context - can use technical terms appropriately",
          finance |-> "finance/banking industry context - use financial terminology appropriately",
          legal |-> "legal industry context - be precise, use legal terminology carefully",
          medical |-> "medical/healthcare industry context - use medical terminology appropriately",
          academic |-> "academic/research context - use scholarly tone and terminology",
          sales |-> "sales context - focus on value proposition and relationship building",
          hr |-> "HR/people operations context - be professional and policy-aware",
          marketing |-> "marketing context - be creative and brand-conscious",
          consulting |-> "consulting context - be advisory and solution-oriented"
         ][r.industry]

relationship_description(r) ==
    IF r.recipient_relationship = "unknown" THEN None
    ELSE [unknown |-> None,
          first_contact |-> "this is first contact - introduce context and establish relevance",
          new_acquaintance |-> "recently met - reference how you connected",
          established |-> "established relationship - can be more direct",
          close_colleague |-> "close colleague - can be more informal while professional",
          internal |-> "internal communication - can assume shared context",
          external |-> "external communication - be more formal and explanatory"
         ][r.recipient_relationship]

(***************************************************************************)
(* The prompt compiler: EmailService.build_prompt (services/email.py).     *)
(* Each appended part keeps its fixed prefix apart from the value the      *)
(* f-string interpolates after it; the part is the two concatenated.       *)
(***************************************************************************)
Part(pre, val) == [pre |-> pre, val |-> val]

PartText(p) == p.pre \o p.val

\* PartIf with the condition ignored: the part is always appended
PartAlways(cond, pre, val) == <<Part(pre, val)>>

\* parts.append(part) if cond
PartIf(cond, pre, val) == IF cond THEN <<Part(pre, val)>> ELSE <<>>

Whitespace == {" ", "\t", "\n", "\r"}

RECURSIVE lstrip(_)
lstrip(s) ==
    IF s # <<>> /\ Head(s) \in Whitespace THEN lstrip(Tail(s)) ELSE s

RECURSIVE rstrip(_)
rstrip(s) ==
    IF s # <<>> /\ s[Len(s)] \in Whitespace
    THEN rstrip(SubSeq(s, 1, Len(s) - 1))
    ELSE s

\* k.strip()
strip(s) == rstrip(lstrip(s))

RECURSIVE SplitFrom(_, _, _)
\* the pieces of s between separators, cur being the piece under way
SplitFrom(s, sep, cur) ==
    IF s = <<>> THEN <<cur>>
    ELSE IF Head(s) = sep THEN <<cur>> \o SplitFrom(Tail(s), sep, <<>>)
    ELSE SplitFrom(Tail(s), sep, Append(cur, Head(s)))

\* s.split(sep), sep one character
split(s, sep) == SplitFrom(s, sep, <<>>)

\* Keywords without the "if k.strip()" filter
KeywordsUnfiltered(text) ==
    LET pieces == split(text, ",")
    IN [i \in 1..Len(pieces) |-> Str(strip(pieces[i]))]

\* [k.strip() for k in keywords_to_include.split(",") if k.strip()]
Keywords(text) ==
    LET pieces == split(text, ",")
        kept == SelectSeq(pieces, LAMBDA k : strip(k) # <<>>)
    IN [i \in 1..Len(kept) |-> Str(strip(kept[i]))]

\* the fence around the quoted email: three backquote characters in the code,
\* which a TLA+ string cannot hold; three apostrophes stand for them here
CodeFence == "'''"

HeaderLine == "Generate an email with the following specifications:"

\* lines 45-47
LanguageParts(r) ==
    PartIf(r.language # "english",
           "\n- IMPORTANT: Write the entire email in ",
           language_description(r))

\* lines 49-55
SliderParts(r) ==
       <<Part("\n- Tone: ", tone_description(r))>>
    \o <<Part("- Length: ", length_description(r))>>
    \o <<Part("- Politeness: ", politeness_description(r))>>
    \o <<Part("- Call-to-action: ", cta_description(r))>>
    \o PartIf(Truthy(urgency_description(r)),
              "- Urgency: ", urgency_description(r))

\* lines 57-75
CategoryParts(r) ==
       PartIf(Truthy(audience_description(r)),
              "- Audience: ", audience_description(r))
    \o PartIf(Truthy(purpose_description(r)),
              "- Purpose: ", purpose_description(r))
    \o PartIf(Truthy(industry_description(r)),
              "- Industry: ", industry_description(r))
    \o PartIf(Truthy(relationship_description(r)),
              "- Relationship: ", relationship_description(r))
    \o PartIf(Truthy(response_type_description(r)),
              "- Response type: ", response_type_description(r))

\* lines 77-81
FormatParts(r) ==
       PartIf(r.use_lists,
              "- Format: Use bullet points (with dashes -) and numbered lists where appropriate to organize information clearly",
              "")
    \o <<Part("- Salutation: ", salutation_description(r))>>
    \o <<Part("- Sign-off: ", sign_off_description(r))>>

\* lines 83-91
NameParts(r) ==
       PartIf(r.recipient_name # <<>>,
              "- Recipient name: ", Str(r.recipient_name))
    \o PartIf(r.sender_name # <<>>,
              "- Sender name (for signature): ", Str(r.sender_name))
    \o PartIf(r.include_attachment_reference,
              "- Include a natural reference to an attachment (e.g., 'Please find attached...' or 'I have attached...')",
              "")

\* lines 93-97
KeywordParts(r) ==
    PartIf(r.keywords_to_include # <<>>
               /\ Keywords(r.keywords_to_include) # <<>>,
           "- MUST include these keywords/phrases naturally: ",
           Join(Keywords(r.keywords_to_include), ", "))

\* lines 99-102
ReplyParts(r) ==
    PartIf(r.incoming_email # <<>>,
           "\n- This is a REPLY to the following email:\n" \o CodeFence \o "\n",
           Str(r.incoming_email) \o "\n" \o CodeFence)

\* lines 104-105
CustomParts(r) ==
    PartIf(r.custom_instructions # <<>>,
           "\n- Additional instructions: ", Str(r.custom_instructions))

\* PromptParts with the categorical directives appended before the sliders
PromptPartsCategoriesFirst(r) ==
       <<Part(HeaderLine, "")>>
    \o LanguageParts(r)
    \o CategoryParts(r)
    \o SliderParts(r)
    \o FormatParts(r)
    \o NameParts(r)
    \o KeywordParts(r)
    \o ReplyParts(r)
    \o CustomParts(r)

\* the list parts of build_prompt, in the order of its appends
PromptParts(r) ==
       <<Part(HeaderLine, "")>>
    \o LanguageParts(r)
    \o SliderParts(r)
    \o CategoryParts(r)
    \o FormatParts(r)
    \o NameParts(r)
    \o KeywordParts(r)
    \o ReplyParts(r)
    \o CustomParts(r)

\* build_prompt(request): "\n".join(parts)
build_prompt(r) ==
    LET ps == PromptParts(r)
    IN Join([i \in 1..Len(ps) |-> PartText(ps[i])], "\n")

(***************************************************************************)
(* The system role templates (prompts.py): one per preset, each ending     *)
(* with the output-format block JSON_FORMAT.                               *)
(***************************************************************************)
RECURSIVE Text(_)
\* the text of a literal: its lines separated by newlines
Text(lines) ==
    IF lines = <<>> THEN <<>>
    ELSE IF Len(lines) = 1 THEN lines[1]
    ELSE lines[1] \o <<"\n">> \o Text(Tail(lines))

JSON_FORMAT ==
    Text(<< <<"R","e","s","p","o","n","d"," ","w","i","t","h"," ","a"," ","J","S","O","N"," ","o","b","j","e","c","t"," ","c","o","n","t","a","i","n","i","n","g"," ","e","x","a","c","t","l","y"," ","t","h","e","s","e"," ","f","i","e","l","d","s",":">>,
            <<"{">>,
            <<" "," ","\"","s","u","b","j","e","c","t","\"",":"," ","\"","Y","o","u","r"," ","p","r","i","m","a","r","y"," ","s","u","b","j","e","c","t"," ","l","i","n","e"," ","h","e","r","e","\"",",">>,
            <<" "," ","\"","s","u","b","j","e","c","t","_","v","a","r","i","a","n","t","s","\"",":"," ","[","\"","A","l","t","e","r","n","a","t","i","v","e"," ","s","u","b","j","e","c","t"," ","1","\"",","," ","\"","A","l","t","e","r","n","a","t","i","v","e"," ","s","u","b","j","e","c","t"," ","2","\"","]",",">>,
            <<" "," ","\"","b","o","d","y","\"",":"," ","\"","Y","o","u","r"," ","e","m","a","i","l"," ","b","o","d","y"," ","h","e","r","e","\"">>,
            <<"}">>,
            <<>>,
            <<"I","M","P","O","R","T","A","N","T"," ","R","U","L","E","S",":">>,
            <<"-"," ","N","E","V","E","R"," ","u","s","e"," ","e","m","o","j","i","s"," ","a","n","y","w","h","e","r","e"," ","i","n"," ","t","h","e"," ","e","m","a","i","l"," ","(","s","u","b","j","e","c","t"," ","o","r"," ","b","o","d","y",")">>,
            <<"-"," ","U","s","e"," ","p","r","o","p","e","r"," ","e","m","a","i","l"," ","f","o","r","m","a","t","t","i","n","g"," ","w","i","t","h"," ","b","l","a","n","k"," ","l","i","n","e","s",":">>,
            <<" "," ","-"," ","B","l","a","n","k"," ","l","i","n","e"," ","a","f","t","e","r"," ","t","h","e"," ","g","r","e","e","t","i","n","g","/","s","a","l","u","t","a","t","i","o","n">>,
            <<" "," ","-"," ","B","l","a","n","k"," ","l","i","n","e"," ","b","e","t","w","e","e","n"," ","p","a","r","a","g","r","a","p","h","s">>,
            <<" "," ","-"," ","B","l","a","n","k"," ","l","i","n","e"," ","b","e","f","o","r","e"," ","t","h","e"," ","s","i","g","n","-","o","f","f">>,
            <<"-"," ","U","s","e"," ","\\","n"," ","f","o","r"," ","n","e","w","l","i","n","e","s"," ","i","n"," ","t","h","e"," ","J","S","O","N"," ","s","t","r","i","n","g">>,
            <<"-"," ","P","r","o","v","i","d","e"," ","e","x","a","c","t","l","y"," ","2"," ","a","l","t","e","r","n","a","t","i","v","e"," ","s","u","b","j","e","c","t"," ","l","i","n","e","s"," ","i","n"," ","s","u","b","j","e","c","t","_","v","a","r","i","a","n","t","s">> >>)

\* the text each template has before the output-format block
RoleText ==
    [general |->
        Text(<< <<"Y","o","u"," ","a","r","e"," ","a","n"," ","e","x","p","e","r","t"," ","e","m","a","i","l"," ","w","r","i","t","e","r","."," ","G","e","n","e","r","a","t","e"," ","p","r","o","f","e","s","s","i","o","n","a","l"," ","e","m","a","i","l","s"," ","b","a","s","e","d"," ","o","n"," ","t","h","e"," ","g","i","v","e","n"," ","p","a","r","a","m","e","t","e","r","s",".">>,
                <<"N","E","V","E","R"," ","u","s","e"," ","e","m","o","j","i","s"," ","i","n"," ","a","n","y"," ","p","a","r","t"," ","o","f"," ","t","h","e"," ","e","m","a","i","l",".">> >>),
     application |->
        Text(<< <<"Y","o","u"," ","a","r","e"," ","a","n"," ","e","x","p","e","r","t"," ","a","t"," ","w","r","i","t","i","n","g"," ","j","o","b"," ","a","n","d"," ","o","p","p","o","r","t","u","n","i","t","y"," ","a","p","p","l","i","c","a","t","i","o","n","s","."," ","W","r","i","t","e"," ","c","o","m","p","e","l","l","i","n","g"," ","a","p","p","l","i","c","a","t","i","o","n"," ","e","m","a","i","l","s"," ","t","h","a","t",":">>,
                <<"-"," ","O","p","e","n"," ","w","i","t","h"," ","a"," ","s","t","r","o","n","g",","," ","s","p","e","c","i","f","i","c"," ","h","o","o","k"," ","s","h","o","w","i","n","g"," ","g","e","n","u","i","n","e"," ","i","n","t","e","r","e","s","t">>,
                <<"-"," ","H","i","g","h","l","i","g","h","t"," ","r","e","l","e","v","a","n","t"," ","q","u","a","l","i","f","i","c","a","t","i","o","n","s"," ","c","o","n","c","i","s","e","l","y">>,
                <<"-"," ","S","h","o","w"," ","k","n","o","w","l","e","d","g","e"," ","o","f"," ","t","h","e"," ","c","o","m","p","a","n","y","/","o","p","p","o","r","t","u","n","i","t","y">>,
                <<"-"," ","I","n","c","l","u","d","e"," ","a"," ","c","l","e","a","r"," ","c","a","l","l"," ","t","o"," ","a","c","t","i","o","n">>,
                <<"-"," ","M","a","i","n","t","a","i","n"," ","p","r","o","f","e","s","s","i","o","n","a","l","i","s","m"," ","w","h","i","l","e"," ","s","h","o","w","i","n","g"," ","p","e","r","s","o","n","a","l","i","t","y">>,
                <<"-"," ","N","E","V","E","R"," ","u","s","e"," ","e","m","o","j","i","s">> >>),
     introduction |->
        Text(<< <<"Y","o","u"," ","a","r","e"," ","a","n"," ","e","x","p","e","r","t"," ","a","t"," ","w","r","i","t","i","n","g"," ","i","n","t","r","o","d","u","c","t","i","o","n"," ","e","m","a","i","l","s","."," ","W","r","i","t","e"," ","w","a","r","m",","," ","p","r","o","f","e","s","s","i","o","n","a","l"," ","i","n","t","r","o","d","u","c","t","i","o","n","s"," ","t","h","a","t",":">>,
                <<"-"," ","E","s","t","a","b","l","i","s","h"," ","w","h","o"," ","y","o","u"," ","a","r","e"," ","c","l","e","a","r","l","y"," ","a","n","d"," ","m","e","m","o","r","a","b","l","y">>,
                <<"-"," ","E","x","p","l","a","i","n"," ","t","h","e"," ","c","o","n","t","e","x","t"," ","o","r"," ","c","o","n","n","e","c","t","i","o","n">>,
                <<"-"," ","S","t","a","t","e"," ","y","o","u","r"," ","p","u","r","p","o","s","e"," ","n","a","t","u","r","a","l","l","y">>,
                <<"-"," ","M","a","k","e"," ","i","t"," ","e","a","s","y"," ","f","o","r"," ","t","h","e"," ","r","e","c","i","p","i","e","n","t"," ","t","o"," ","r","e","s","p","o","n","d">>,
                <<"-"," ","K","e","e","p"," ","i","t"," ","b","r","i","e","f"," ","b","u","t"," ","p","e","r","s","o","n","a","b","l","e">>,
                <<"-"," ","N","E","V","E","R"," ","u","s","e"," ","e","m","o","j","i","s">> >>),
     cold_email |->
        Text(<< <<"Y","o","u"," ","a","r","e"," ","a","n"," ","e","x","p","e","r","t"," ","a","t"," ","w","r","i","t","i","n","g"," ","c","o","l","d"," ","o","u","t","r","e","a","c","h"," ","e","m","a","i","l","s","."," ","W","r","i","t","e"," ","e","m","a","i","l","s"," ","t","h","a","t",":">>,
                <<"-"," ","H","o","o","k"," ","t","h","e"," ","r","e","a","d","e","r"," ","i","n"," ","t","h","e"," ","f","i","r","s","t"," ","l","i","n","e"," ","w","i","t","h"," ","s","o","m","e","t","h","i","n","g"," ","r","e","l","e","v","a","n","t"," ","t","o"," ","t","h","e","m">>,
                <<"-"," ","P","r","o","v","i","d","e"," ","i","m","m","e","d","i","a","t","e"," ","v","a","l","u","e"," ","o","r"," ","i","n","s","i","g","h","t">>,
                <<"-"," ","K","e","e","p"," ","i","t"," ","e","x","t","r","e","m","e","l","y"," ","c","o","n","c","i","s","e"," ","(","u","n","d","e","r"," ","1","0","0"," ","w","o","r","d","s"," ","f","o","r"," ","b","o","d","y",")">>,
                <<"-"," ","H","a","v","e"," ","a"," ","s","i","n","g","l","e",","," ","c","l","e","a","r"," ","a","s","k">>,
                <<"-"," ","A","v","o","i","d"," ","s","o","u","n","d","i","n","g"," ","s","a","l","e","s","y"," ","o","r"," ","g","e","n","e","r","i","c">>,
                <<"-"," ","F","e","e","l"," ","p","e","r","s","o","n","a","l",","," ","n","o","t"," ","t","e","m","p","l","a","t","e","d">>,
                <<"-"," ","N","E","V","E","R"," ","u","s","e"," ","e","m","o","j","i","s">> >>),
     follow_up |->
        Text(<< <<"Y","o","u"," ","a","r","e"," ","a","n"," ","e","x","p","e","r","t"," ","a","t"," ","w","r","i","t","i","n","g"," ","f","o","l","l","o","w","-","u","p"," ","e","m","a","i","l","s","."," ","W","r","i","t","e"," ","f","o","l","l","o","w","-","u","p","s"," ","t","h","a","t",":">>,
                <<"-"," ","R","e","f","e","r","e","n","c","e"," ","t","h","e"," ","p","r","e","v","i","o","u","s"," ","i","n","t","e","r","a","c","t","i","o","n"," ","n","a","t","u","r","a","l","l","y">>,
                <<"-"," ","A","d","d"," ","n","e","w"," ","v","a","l","u","e"," ","r","a","t","h","e","r"," ","t","h","a","n"," ","j","u","s","t"," ","\"","c","h","e","c","k","i","n","g"," ","i","n","\"">>,
                <<"-"," ","K","e","e","p"," ","i","t"," ","s","h","o","r","t","e","r"," ","t","h","a","n"," ","t","h","e"," ","o","r","i","g","i","n","a","l"," ","e","m","a","i","l">>,
                <<"-"," ","M","a","k","e"," ","r","e","s","p","o","n","d","i","n","g"," ","e","a","s","y">>,
                <<"-"," ","M","a","i","n","t","a","i","n"," ","a","p","p","r","o","p","r","i","a","t","e"," ","u","r","g","e","n","c","y"," ","w","i","t","h","o","u","t"," ","b","e","i","n","g"," ","p","u","s","h","y">>,
                <<"-"," ","N","E","V","E","R"," ","u","s","e"," ","e","m","o","j","i","s">> >>)]

\* PROMPTS: the template of each preset, f"""<role text>\n\n{JSON_FORMAT}"""
PROMPTS ==
    [p \in DOMAIN RoleText |-> RoleText[p] \o <<"\n", "\n">> \o JSON_FORMAT]

\* get_prompt that ignores the preset
get_prompt_general(preset) == PROMPTS["general"]

\* get_prompt(preset): PROMPTS.get(preset, PROMPTS[EmailPreset.GENERAL])
get_prompt(preset) ==
    IF preset \in DOMAIN PROMPTS THEN PROMPTS[preset] ELSE PROMPTS["general"]

(***************************************************************************)
(* json.loads, as parse_response uses it (services/email.py, line 119):    *)
(* Python's decoder over the JSON grammar - objects, arrays, strings with  *)
(* the escapes \" \\ \/ \n \t \r, numbers, true, false, null, NaN and the  *)
(* infinities - with a later duplicate key replacing an earlier one.  The  *)
(* escapes \b, \f and \uXXXX are outside the texts the model decodes.      *)
(***************************************************************************)
JStr(s) == [t |-> "str", s |-> s]

JNum(lit) == [t |-> "num", lit |-> lit]

JBool(b) == [t |-> "bool", b |-> b]

JNull == [t |-> "null"]

JList(items) == [t |-> "list", items |-> items]

\* items: the members in the order read, each [key, val]
JDict(items) == [t |-> "dict", items |-> items]

\* a decoding step that failed
Fail == [ok |-> FALSE]

\* a decoding step that read val and stopped before index next
Read(val, next) == [ok |-> TRUE, val |-> val, next |-> next]

Digits == {"0", "1", "2", "3", "4", "5", "6", "7", "8", "9"}

\* what each escaped character of a JSON string stands for
Escapes ==
    [c \in {"\"", "\\", "/", "n", "t", "r"} |->
        CASE c = "n" -> "\n"
          [] c = "t" -> "\t"
          [] c = "r" -> "\r"
          [] OTHER -> c]

At(s, i, c) == i <= Len(s) /\ s[i] = c

RECURSIVE SkipWs(_, _)
SkipWs(s, i) ==
    IF i <= Len(s) /\ s[i] \in Whitespace THEN SkipWs(s, i + 1) ELSE i

RECURSIVE ScanDigits(_, _)
\* the index after the run of digits starting at i
ScanDigits(s, i) ==
    IF i <= Len(s) /\ s[i] \in Digits THEN ScanDigits(s, i + 1) ELSE i

RECURSIVE ScanString(_, _, _)
\* the string whose opening quote precedes index i (strict: no raw control
\* character inside)
ScanString(s, i, acc) ==
    IF i > Len(s) THEN Fail
    ELSE IF s[i] = "\"" THEN Read(JStr(acc), i + 1)
    ELSE IF s[i] = "\\"
         THEN IF i + 1 <= Len(s) /\ s[i + 1] \in DOMAIN Escapes
              THEN ScanString(s, i + 2, Append(acc, Escapes[s[i + 1]]))
              ELSE Fail
    ELSE IF s[i] \in {"\n", "\t", "\r"} THEN Fail
    ELSE ScanString(s, i + 1, Append(acc, s[i]))

\* NUMBER_RE: -?(0|[1-9]\d*)(\.\d+)?([eE][-+]?\d+)? matched at index i
ScanNumber(s, i) ==
    LET j0 == IF At(s, i, "-") THEN i + 1 ELSE i
        j1 == IF At(s, j0, "0") THEN j0 + 1 ELSE ScanDigits(s, j0)
        j2 == IF At(s, j1, ".") /\ j1 + 1 <= Len(s) /\ s[j1 + 1] \in Digits
              THEN ScanDigits(s, j1 + 1)
              ELSE j1
        e0 == IF j2 + 1 <= Len(s) /\ s[j2 + 1] \in {"+", "-"}
              THEN j2 + 2 ELSE j2 + 1
        j3 == IF j2 <= Len(s) /\ s[j2] \in {"e", "E"}
                 /\ e0 <= Len(s) /\ s[e0] \in Digits
              THEN ScanDigits(s, e0)
              ELSE j2
    IN IF j0 <= Len(s) /\ s[j0] \in Digits
       THEN Read(JNum(SubSeq(s, i, j3 - 1)), j3)
       ELSE Fail

RECURSIVE ScanValue(_, _), ScanArray(_, _, _), ScanObject(_, _, _)

\* scan_once: the value starting at index i
ScanValue(s, i) ==
    IF i > Len(s) THEN Fail
    ELSE IF s[i] = "\"" THEN ScanString(s, i + 1, <<>>)
    ELSE IF s[i] = "{"
         THEN LET j == SkipWs(s, i + 1)
              IN IF At(s, j, "}") THEN Read(JDict(<<>>), j + 1)
                 ELSE ScanObject(s, j, <<>>)
    ELSE IF s[i] = "["
         THEN LET j == SkipWs(s, i + 1)
              IN IF At(s, j, "]") THEN Read(JList(<<>>), j + 1)
                 ELSE ScanArray(s, j, <<>>)
    ELSE IF MatchAt(<<"n","u","l","l">>, s, i) THEN Read(JNull, i + 4)
    ELSE IF MatchAt(<<"t","r","u","e">>, s, i) THEN Read(JBool(TRUE), i + 4)
    ELSE IF MatchAt(<<"f","a","l","s","e">>, s, i) THEN Read(JBool(FALSE), i + 5)
    ELSE IF ScanNumber(s, i).ok THEN ScanNumber(s, i)
    ELSE IF MatchAt(<<"N","a","N">>, s, i) THEN Read(JNum(<<"N","a","N">>), i + 3)
    ELSE IF MatchAt(<<"I","n","f","i","n","i","t","y">>, s, i) THEN Read(JNum(<<"I","n","f","i","n","i","t","y">>), i + 8)
    ELSE IF MatchAt(<<"-","I","n","f","i","n","i","t","y">>, s, i) THEN Read(JNum(<<"-","I","n","f","i","n","i","t","y">>), i + 9)
    ELSE Fail

\* JSONArray: the items from index i on, acc being those already read
ScanArray(s, i, acc) ==
    LET v == ScanValue(s, i) IN
    IF ~v.ok THEN Fail
    ELSE LET j == SkipWs(s, v.next)
             items == Append(acc, v.val)
         IN IF At(s, j, "]") THEN Read(JList(items), j + 1)
            ELSE IF At(s, j, ",") THEN ScanArray(s, SkipWs(s, j + 1), items)
            ELSE Fail

\* JSONObject: the members from index i on, acc being those already read
ScanObject(s, i, acc) ==
    IF ~At(s, i, "\"") THEN Fail
    ELSE LET k == ScanString(s, i + 1, <<>>) IN
         IF ~k.ok THEN Fail
         ELSE LET c == SkipWs(s, k.next) IN
              IF ~At(s, c, ":") THEN Fail
              ELSE LET v == ScanValue(s, SkipWs(s, c + 1)) IN
                   IF ~v.ok THEN Fail
                   ELSE LET j == SkipWs(s, v.next)
                            items == Append(acc, [key |-> k.val.s, val |-> v.val])
                        IN IF At(s, j, "}") THEN Read(JDict(items), j + 1)
                           ELSE IF At(s, j, ",")
                                THEN ScanObject(s, SkipWs(s, j + 1), items)
                           ELSE Fail

\* json.loads(content): ok is FALSE where Python raises JSONDecodeError
json_loads(s) ==
    LET v == ScanValue(s, SkipWs(s, 1)) IN
    IF v.ok /\ SkipWs(s, v.next) = Len(s) + 1 THEN v ELSE Fail

\* DictGet that never finds the key
DictGetMissing(d, key, default) == default

\* data.get(key, default) on a decoded object
DictGet(d, key, default) ==
    LET at == {i \in 1..Len(d.items) : d.items[i].key = key}
    IN IF at = {} THEN default
       ELSE d.items[CHOOSE i \in at : \A j \in at : j <= i].val

(***************************************************************************)
(* EmailResponse (models.py) and EmailService.parse_response.              *)
(***************************************************************************)
PlaceholderSubject == <<"G","e","n","e","r","a","t","e","d"," ","E","m","a","i","l">>

\* subject_variants: list[str]
VariantsOk(v) ==
    /\ v.t = "list"
    /\ \A i \in 1..Len(v.items) : v.items[i].t = "str"

\* an EmailResponse that parse_response returned
Returned(subj, variants, bdy, spam_result) ==
    [raised |-> "none",
     subject |-> subj,
     subject_variants |-> variants,
     body |-> bdy,
     spam_score |-> spam_result.score,
     spam_warnings |-> spam_result.warnings]

\* an exception that left parse_response: no EmailResponse exists
Raised(exception) ==
    [raised |-> exception,
     subject |-> <<>>,
     subject_variants |-> <<>>,
     body |-> <<>>,
     spam_score |-> 0,
     spam_warnings |-> <<>>]

\* Fallback with the reply text stripped of surrounding whitespace
FallbackStripped(text) ==
    Returned(PlaceholderSubject, <<>>, strip(text),
             calculate_spam_score(PlaceholderSubject, strip(text)))

\* Fallback with the scorer skipped
FallbackUnscored(text) == Returned(PlaceholderSubject, <<>>, text, NoSpam)

\* the except json.JSONDecodeError branch
Fallback(text) ==
    Returned(PlaceholderSubject, <<>>, text,
             calculate_spam_score(PlaceholderSubject, text))

\* FromData taking the fallback as a whole when the object lacks a field
FromDataAllOrNothing(data, text) ==
    IF data.t # "dict" THEN Raised("AttributeError")
    ELSE IF \E key \in {<<"s","u","b","j","e","c","t">>, <<"b","o","d","y">>, <<"s","u","b","j","e","c","t","_","v","a","r","i","a","n","t","s">>} :
                \A i \in 1..Len(data.items) : data.items[i].key # key
    THEN Fallback(text)
    ELSE LET subj == DictGet(data, <<"s","u","b","j","e","c","t">>, JStr(PlaceholderSubject))
             bdy == DictGet(data, <<"b","o","d","y">>, JStr(text))
             variants == DictGet(data, <<"s","u","b","j","e","c","t","_","v","a","r","i","a","n","t","s">>, JList(<<>>))
         IN IF subj.t # "str" \/ bdy.t # "str" THEN Raised("TypeError")
            ELSE IF ~VariantsOk(variants) THEN Raised("ValidationError")
            ELSE Returned(subj.s,
                          [i \in 1..Len(variants.items) |-> variants.items[i].s],
                          bdy.s,
                          calculate_spam_score(subj.s, bdy.s))

\* the try branch once json.loads has returned data
FromData(data, text) ==
    IF data.t # "dict" THEN Raised("AttributeError")
    ELSE LET subj == DictGet(data, <<"s","u","b","j","e","c","t">>, JStr(PlaceholderSubject))
             bdy == DictGet(data, <<"b","o","d","y">>, JStr(text))
             variants == DictGet(data, <<"s","u","b","j","e","c","t","_","v","a","r","i","a","n","t","s">>, JList(<<>>))
         IN IF subj.t # "str" \/ bdy.t # "str" THEN Raised("TypeError")
            ELSE IF ~VariantsOk(variants) THEN Raised("ValidationError")
            ELSE Returned(subj.s,
                          [i \in 1..Len(variants.items) |-> variants.items[i].s],
                          bdy.s,
                          calculate_spam_score(subj.s, bdy.s))

\* parse_response(content)
parse_response(text) ==
    LET decoded == json_loads(text)
    IN IF decoded.ok THEN FromData(decoded.val, text) ELSE Fallback(text)

(***************************************************************************)
(* Bounds of the model and the inputs drawn within them.                   *)
(***************************************************************************)
\* how far outside [SliderMin, SliderMax] a submitted slider value may lie
SliderOver == 2

\* how many fragments a scored subject is made of, at most
MaxSubjectFrags == 2

\* how many blanks may surround a reply text, at most
MaxPad == 1

\* how many generate invocations the service runs, at most
MaxCalls == 2

\* how long a keywords field made of letters, commas and blanks is, at most
MaxKeywordLen == 4

\* a categorical value outside every enumeration
UnknownValue == "bogus"

\* forms that differ from the defaults in one slider, over the whole range
\* and beyond it
SliderForms ==
    {[FormDefaults EXCEPT ![f] = v] :
        f \in SliderFields,
        v \in (SliderMin - SliderOver)..(SliderMax + SliderOver)}

\* forms that differ from the defaults in one categorical field
EnumForms ==
    UNION {{[FormDefaults EXCEPT ![f] = v] : v \in EnumOf[f] \cup {UnknownValue}} :
              f \in DOMAIN EnumOf}

\* forms with every optional directive independently on or off
OptionForms ==
    [preset : {"general"},
     incoming_email : {<<>>, <<"C","a","n"," ","w","e"," ","m","e","e","t","?">>},
     recipient_name : {<<>>, <<"A","n","n">>},
     sender_name : {<<>>, <<"B","o","b">>},
     tone : {50},
     length : {50},
     temperature : {70},
     use_lists : BOOLEAN,
     custom_instructions : {<<>>, <<"B","e"," ","b","r","i","e","f">>},
     urgency : {0, 65},
     cta_strength : {50},
     politeness : {50},
     salutation_style : {"standard"},
     sign_off_style : {"professional"},
     language : {"english", "french"},
     audience_type : {"general", "client"},
     purpose : {"general", "request"},
     keywords_to_include : {<<>>, <<" ","b","u","d","g","e","t",","," ",",","Q","3"," ","r","e","p","o","r","t"," ">>, <<" ",","," ">>,
                            <<"Q","3"," ","r","e","p","o","r","t",",","\t","b","u","d","g","e","t"," ",",">>},
     response_type : {"none", "accept"},
     industry : {"general", "tech"},
     recipient_relationship : {"unknown", "internal"},
     include_attachment_reference : BOOLEAN]

RECURSIVE TextsOver(_, _)
\* the texts of at most n characters of the alphabet
TextsOver(alphabet, n) ==
    IF n = 0 THEN {<<>>}
    ELSE TextsOver(alphabet, n - 1)
         \cup {Append(t, c) : t \in TextsOver(alphabet, n - 1), c \in alphabet}

\* forms that differ from the defaults in the keywords field
KeywordForms ==
    {[FormDefaults EXCEPT !.keywords_to_include = k] :
        k \in TextsOver({"a", "b", ",", " "}, MaxKeywordLen)}

Forms == SliderForms \cup EnumForms \cup OptionForms \cup KeywordForms

SubjectFragments ==
    << <<"F","R","E","E"," ","M","O","N","E","Y","!","!","!"," ","A","C","T"," ","N","O","W">>,
       <<"M","e","e","t","i","n","g"," ","n","o","t","e","s">>,
       <<"R","e",":"," ">>,
       <<"F","w","d",":"," ">>,
       <<"U","R","G","E","N","T"," ","w","i","n","n","e","r"," ","a","c","t"," ","n","o","w"," ","b","u","y"," ","n","o","w"," ","y","o","u"," ","w","o","n"," ","o","r","d","e","r"," ","n","o","w"," ">>,
       <<"H","i","!"," ","S","a","v","e"," ","B","I","G","!">> >>

BodyFragments ==
    << <<"P","l","e","a","s","e"," ","s","e","e"," ","a","t","t","a","c","h","e","d",".">>,
       <<"r","i","s","k"," ","f","r","e","e"," ","1","0","0","%"," ","f","r","e","e"," ","f","r","e","e"," ","m","o","n","e","y"," ","c","a","s","h"," ","b","o","n","u","s"," ","c","l","i","c","k"," ","h","e","r","e"," ">>,
       <<"h","t","t","p",":","/","/","a",".","i","o"," ","h","t","t","p","s",":","/","/","b",".","i","o"," ","w","w","w",".","c",".","i","o"," ","w","w","w",".","d",".","i","o"," ">>,
       <<"D","e","a","r"," ","f","r","i","e","n","d",","," ","a"," ","s","p","e","c","i","a","l"," ","o","f","f","e","r","?","?","?">> >>

RECURSIVE Concatenations(_, _)
\* the texts made of at most n of the fragments, in any order
Concatenations(frags, n) ==
    IF n = 0 THEN {<<>>}
    ELSE Concatenations(frags, n - 1)
         \cup {t \o frags[i] : t \in Concatenations(frags, n - 1),
                               i \in 1..Len(frags)}

Subjects == Concatenations(SubjectFragments, MaxSubjectFrags)

\* a scored body is empty or one of the fragments
Bodies == Concatenations(BodyFragments, 1)

\* texts cut in two at every position, the first part scored as subject and
\* the second as body
CutTexts ==
    { <<"F","r","e","e"," ","m","o","n","e","y">>, <<"f","r","e","e","m","o","n","e","y">>, <<"a","c","t"," ","n","o","w">>, <<"a","c","t","n","o","w">>, <<"U","R","G","E","N","T">>, <<"D","e","a","r"," ","F","r","i","e","n","d">>,
      <<"w","o","w","!","!","!">>, <<"w","w","w",".","a"," ","w","w","w",".","b"," ","w","w","w",".","c"," ","w","w","w",".","d">> }

Cuts(t) == {<<SubSeq(t, 1, i), SubSeq(t, i + 1, Len(t))>> : i \in 0..Len(t)}

\* subjects at the edges of the capitalization rule, each with bodies of
\* either case
CapitalSubjects ==
    { <<>>, <<"A">>, <<"S","A","L","E","!">>, <<"U","R","G","N","T">>, <<"A","B","C","d","e","f">>, <<"A","B","C","D","e","f">>, <<"a","b","c","d","e","F">>, <<"H","E","L","L","O"," ","w","o","r","l","d">>,
      <<"H","E","L","L","O"," ","W","O","R","L","D">>, <<"h","e","l","l","o"," ","w","o","r","l","d">>, <<"H","i","!","!"," ","O","K">>, <<"N","E","W","S"," ","2","4","/","7">>, <<"R","e",":"," ","X">>, <<"F","W",":"," ","N","E","W","S">> }

CapitalBodies == { <<>>, <<"P","L","E","A","S","E"," ","S","E","E"," ","A","T","T","A","C","H","E","D">>, <<"p","l","e","a","s","e"," ","s","e","e"," ","a","t","t","a","c","h","e","d">> }

EdgeTexts ==
    UNION {Cuts(t) : t \in CutTexts}
    \cup (CapitalSubjects \X CapitalBodies)

\* the members a reply object may hold for each field; <<>> is "absent"
SubjectMembers ==
    << <<>>,
       <<"\"","s","u","b","j","e","c","t","\"",":","\"","H","i","\"">>,
       <<"\"","s","u","b","j","e","c","t","\"",":"," ","\"","F","R","E","E"," ","M","O","N","E","Y","!","!","!"," ","A","C","T"," ","N","O","W","\"">>,
       <<"\"","s","u","b","j","e","c","t","\"",":","5">>,
       <<"\"","s","u","b","j","e","c","t","\"",":","n","u","l","l">>,
       <<"\"","s","u","b","j","e","c","t","\"",":","[","\"","H","i","\"","]">> >>

BodyMembers ==
    << <<>>,
       <<"\"","b","o","d","y","\"",":","\"","H","e","l","l","o","\"">>,
       <<"\"","b","o","d","y","\"",":","\"","\"">>,
       <<"\"","b","o","d","y","\"",":","\"","D","e","a","r"," ","f","r","i","e","n","d",",","\\","n","c","l","i","c","k"," ","h","e","r","e"," ","\\","\"","n","o","w","\\","\"","\"">>,
       <<"\"","b","o","d","y","\"",":","7",".","5">>,
       <<"\"","b","o","d","y","\"",":","{","\"","t","e","x","t","\"",":","\"","H","e","l","l","o","\"","}">> >>

VariantsMembers ==
    << <<>>,
       <<"\"","s","u","b","j","e","c","t","_","v","a","r","i","a","n","t","s","\"",":","[","]">>,
       <<"\"","s","u","b","j","e","c","t","_","v","a","r","i","a","n","t","s","\"",":","[","\"","H","e","y","\"",","," ","\"","H","e","l","l","o"," ","t","h","e","r","e","\"","]">>,
       <<"\"","s","u","b","j","e","c","t","_","v","a","r","i","a","n","t","s","\"",":","[","\"","H","e","y","\"",","," ","2","]">>,
       <<"\"","s","u","b","j","e","c","t","_","v","a","r","i","a","n","t","s","\"",":","\"","H","e","y","\"">>,
       <<"\"","s","u","b","j","e","c","t","_","v","a","r","i","a","n","t","s","\"",":","n","u","l","l">> >>

RECURSIVE JoinText(_, _)
\* the texts of the sequence, separated by sep, the empty ones left out
JoinText(texts, sep) ==
    IF texts = <<>> THEN <<>>
    ELSE LET rest == JoinText(Tail(texts), sep)
         IN IF Head(texts) = <<>> THEN rest
            ELSE IF rest = <<>> THEN Head(texts)
            ELSE Head(texts) \o sep \o rest

\* reply texts that are JSON objects
ObjectReplies ==
    {<<"{">> \o JoinText(<<SubjectMembers[i], VariantsMembers[j], BodyMembers[k]>>,
                     <<",">>) \o <<"}">> :
        i \in 1..Len(SubjectMembers),
        j \in 1..Len(VariantsMembers),
        k \in 1..Len(BodyMembers)}

\* reply texts that are other JSON values, or not JSON at all
OtherReplies ==
    { <<"n","o","t"," ","j","s","o","n">>,
      <<>>,
      <<"\"","n","o","t"," ","j","s","o","n","\"">>,
      <<"[","1",","," ","2","]">>,
      <<"4","2">>,
      <<"-","3",".","5","e","2">>,
      <<"n","u","l","l">>,
      <<"t","r","u","e">>,
      <<"N","a","N">>,
      <<"[","]">>,
      <<"{","\"","s","u","b","j","e","c","t","\"",":","\"","H","i","\"">>,
      <<"{","\"","s","u","b","j","e","c","t","\"",":","\"","H","i","\"",",","}">>,
      <<"{","s","u","b","j","e","c","t",":","\"","H","i","\"","}">>,
      <<"{","\"","s","u","b","j","e","c","t","\"",":","\"","H","i","\"","}"," ","t","r","a","i","l","i","n","g">>,
      <<"{","\"","s","u","b","j","e","c","t","\"",":","\"","H","i","\""," ","\"","b","o","d","y","\"",":","\"","H","e","l","l","o","\"","}">>,
      <<"{","\"","s","u","b","j","e","c","t","\"",":","\"","a","\\","q","b","\"","}">>,
      <<"[","\"","s","u","b","j","e","c","t","\"",","," ","\"","b","o","d","y","\"">>,
      <<"0","1">>,
      <<"F","R","E","E"," ","M","O","N","E","Y","!","!","!"," ","c","l","i","c","k"," ","h","e","r","e"," ","h","t","t","p",":","/","/","a",".","i","o">>,
      <<"{","\"","s","u","b","j","e","c","t","\"",":","\"","O","l","d","\"",",","\"","b","o","d","y","\"",":","\"","H","e","l","l","o","\"",",","\"","s","u","b","j","e","c","t","\"",":","\"","N","e","w","\"","}">>,
      <<"{"," ","\"","b","o","d","y","\""," ",":"," ","\"","H","e","l","l","o","\""," ",","," ","\"","s","u","b","j","e","c","t","\""," ",":"," ","\"","H","i","\""," ","}","\n">> }

RECURSIVE Blanks(_)
Blanks(n) == IF n = 0 THEN <<>> ELSE <<" ">> \o Blanks(n - 1)

Replies ==
    {Blanks(n) \o t \o Blanks(n) :
        n \in 0..MaxPad, t \in ObjectReplies \cup OtherReplies}

\* forms submitted with each preset, known or not, the other fields varying
TemplateForms ==
    {[FormDefaults EXCEPT !.preset = p, !.tone = t, !.language = l,
                          !.use_lists = u, !.incoming_email = e] :
        p \in EmailPreset \cup {UnknownValue},
        t \in {0, 50, 100},
        l \in {"english", "french"},
        u \in BOOLEAN,
        e \in {<<>>, <<"C","a","n"," ","w","e"," ","m","e","e","t","?">>}}

\* the requests and the replies of the invocations the service runs
CallRequests ==
    {FormDefaults,
     [FormDefaults EXCEPT !.preset = "follow_up", !.urgency = 65,
                          !.recipient_name = <<"A","n","n">>],
     [FormDefaults EXCEPT !.preset = "cold_email", !.language = "french",
                          !.keywords_to_include = <<" ","b","u","d","g","e","t",","," ",",","Q","3"," ","r","e","p","o","r","t"," ">>]}

CallReplies ==
    {<<"{","\"","s","u","b","j","e","c","t","\"",":","\"","H","i","\"",",","\"","b","o","d","y","\"",":","\"","H","e","l","l","o","\"","}">>,
     <<"{","\"","s","u","b","j","e","c","t","\"",":"," ","\"","F","R","E","E"," ","M","O","N","E","Y","!","!","!"," ","A","C","T"," ","N","O","W","\"",",","\"","s","u","b","j","e","c","t","_","v","a","r","i","a","n","t","s","\"",":","[","\"","H","e","y","\"",","," ","\"","H","e","l","l","o"," ","t","h","e","r","e","\"","]",",","\"","b","o","d","y","\"",":","\"","\"","}">>,
     <<"n","o","t"," ","j","s","o","n">>}

(***************************************************************************)
(* State.  pc is the step reached; raw is the submitted form, request the  *)
(* EmailRequest built from it, parts and prompt what build_prompt made of  *)
(* it and system_prompt the template get_prompt selected; content is the   *)
(* service's reply and response what parse_response made of it; subject    *)
(* and body are the texts scored and spam the result.  The service holds   *)
(* api_key and client (its _client); clients_created counts the Groq       *)
(* clients constructed so far, calls holds the locals of each generate     *)
(* invocation and running is the invocation the event loop is running.     *)
(***************************************************************************)
NoResponse == Raised("pending")

\* self._client = None: no client yet; a client is named by the ordinal of
\* its construction
NoClient == 0

\* no coroutine holds the event loop
NoCall == 0

Invocations == 1..MaxCalls

\* an invocation of generate that has not started
IdleCall ==
    [pc |-> "idle",
     request |-> FormDefaults,
     prompt |-> "",
     system_prompt |-> <<>>,
     content |-> <<>>,
     response |-> NoResponse]

\* EmailService(): no client, no invocation running
IdleService ==
    /\ client = NoClient
    /\ clients_created = 0
    /\ running = NoCall
    /\ calls = [i \in Invocations |-> IdleCall]

service_vars == <<api_key, client, clients_created, running, calls>>

(***************************************************************************)
(* Compiling a request: EmailRequest(...) then build_prompt.               *)
(***************************************************************************)
InitCompile ==
    /\ pc = "form"
    /\ raw \in Forms
    /\ request = FormDefaults
    /\ parts = <<>>
    /\ prompt = ""
    /\ content = <<>>
    /\ response = NoResponse
    /\ subject = <<>>
    /\ body = <<>>
    /\ spam = NoSpam
    /\ system_prompt = <<>>
    /\ api_key = TRUE
    /\ IdleService

\* EmailRequest(...): the request, or a ValidationError and no request
Construct ==
    /\ pc = "form"
    /\ IF ValidRequest(raw)
       THEN pc' = "constructed" /\ request' = RequestOf(raw)
       ELSE pc' = "rejected" /\ request' = request
    /\ UNCHANGED <<raw, parts, prompt, content, response, subject, body, spam,
                 system_prompt, service_vars>>

\* build_prompt(request)
BuildPrompt ==
    /\ pc = "constructed"
    /\ pc' = "compiled"
    /\ parts' = PromptParts(request)
    /\ prompt' = build_prompt(request)
    /\ UNCHANGED <<raw, request, content, response, subject, body, spam,
                 system_prompt, service_vars>>

NextCompile == Construct \/ BuildPrompt

SpecCompile == InitCompile /\ [][NextCompile]_vars

(***************************************************************************)
(* Parsing a reply: parse_response(content).                               *)
(***************************************************************************)
InitParse ==
    /\ pc = "reply"
    /\ content \in Replies
    /\ raw = FormDefaults
    /\ request = FormDefaults
    /\ parts = <<>>
    /\ prompt = ""
    /\ response = NoResponse
    /\ subject = <<>>
    /\ body = <<>>
    /\ spam = NoSpam
    /\ system_prompt = <<>>
    /\ api_key = TRUE
    /\ IdleService

ParseResponse ==
    /\ pc = "reply"
    /\ pc' = "parsed"
    /\ response' = parse_response(content)
    /\ UNCHANGED <<raw, request, parts, prompt, content, subject, body, spam,
                 system_prompt, service_vars>>

NextParse == ParseResponse

SpecParse == InitParse /\ [][NextParse]_vars

(***************************************************************************)
(* Scoring a text: calculate_spam_score(subject, body).                    *)
(***************************************************************************)
InitScore ==
    /\ pc = "text"
    /\ subject \in Subjects
    /\ body \in Bodies
    /\ raw = FormDefaults
    /\ request = FormDefaults
    /\ parts = <<>>
    /\ prompt = ""
    /\ content = <<>>
    /\ response = NoResponse
    /\ spam = NoSpam
    /\ system_prompt = <<>>
    /\ api_key = TRUE
    /\ IdleService

CalculateSpamScore ==
    /\ pc = "text"
    /\ pc' = "scored"
    /\ spam' = calculate_spam_score(subject, body)
    /\ UNCHANGED <<raw, request, parts, prompt, content, response, subject, body,
                 system_prompt, service_vars>>

NextScore == CalculateSpamScore

SpecScore == InitScore /\ [][NextScore]_vars

(***************************************************************************)
(* Selecting a template: get_prompt(preset).                               *)
(***************************************************************************)
InitTemplate ==
    /\ pc = "preset"
    /\ raw \in TemplateForms
    /\ request = FormDefaults
    /\ parts = <<>>
    /\ prompt = ""
    /\ content = <<>>
    /\ response = NoResponse
    /\ subject = <<>>
    /\ body = <<>>
    /\ spam = NoSpam
    /\ system_prompt = <<>>
    /\ api_key = TRUE
    /\ IdleService

GetPrompt ==
    /\ pc = "preset"
    /\ pc' = "selected"
    /\ system_prompt' = get_prompt(raw.preset)
    /\ UNCHANGED <<raw, request, parts, prompt, content, response, subject, body,
                   spam, service_vars>>

NextTemplate == GetPrompt

SpecTemplate == InitTemplate /\ [][NextTemplate]_vars

(***************************************************************************)
(* The service: several invocations of EmailService.generate on one        *)
(* EmailService.  generate is a coroutine without an await: once the event *)
(* loop has entered it, it runs to its return (or to the exception that    *)
(* leaves it) before the loop runs another coroutine, so the invocations   *)
(* interleave as wholes, in any order.                                     *)
(***************************************************************************)
\* the client property with the "is None" test left out: a client is
\* constructed at every access
client_always_new(current, key, made) ==
    IF ~key THEN [raised |-> TRUE, client |-> current, made |-> made]
    ELSE [raised |-> FALSE, client |-> made + 1, made |-> made + 1]

\* the client property (lines 25-32): the client it returns, or raised, and
\* the number of clients constructed after it
client_property(current, key, made) ==
    IF current = NoClient
    THEN IF ~key
         THEN [raised |-> TRUE, client |-> current, made |-> made]
         ELSE [raised |-> FALSE, client |-> made + 1, made |-> made + 1]
    ELSE [raised |-> FALSE, client |-> current, made |-> made]

InitService ==
    /\ pc = "service"
    /\ api_key \in BOOLEAN
    /\ IdleService
    /\ raw = FormDefaults
    /\ request = FormDefaults
    /\ parts = <<>>
    /\ prompt = ""
    /\ content = <<>>
    /\ response = NoResponse
    /\ subject = <<>>
    /\ body = <<>>
    /\ spam = NoSpam
    /\ system_prompt = <<>>

engine_vars ==
    <<pc, raw, request, parts, prompt, content, response, subject, body, spam,
      system_prompt>>

\* await email_service.generate(email_request): the loop enters generate
Enter(i) ==
    /\ running = NoCall
    /\ calls[i].pc = "idle"
    /\ \E r \in CallRequests :
           calls' = [calls EXCEPT ![i].pc = "entered", ![i].request = r]
    /\ running' = i
    /\ UNCHANGED <<engine_vars, api_key, client, clients_created>>

\* prompt = self.build_prompt(request)
CallBuildPrompt(i) ==
    /\ running = i
    /\ calls[i].pc = "entered"
    /\ calls' = [calls EXCEPT ![i].pc = "compiled",
                              ![i].prompt = build_prompt(calls[i].request)]
    /\ UNCHANGED <<engine_vars, api_key, client, clients_created, running>>

\* system_prompt = get_prompt(request.preset)
CallGetPrompt(i) ==
    /\ running = i
    /\ calls[i].pc = "compiled"
    /\ calls' = [calls EXCEPT ![i].pc = "selected",
                              ![i].system_prompt = get_prompt(calls[i].request.preset)]
    /\ UNCHANGED <<engine_vars, api_key, client, clients_created, running>>

\* self.client: the client, created if there is none; a ValueError leaves
\* generate when no key is configured
CallClient(i) ==
    /\ running = i
    /\ calls[i].pc = "selected"
    /\ LET got == client_property(client, api_key, clients_created)
       IN /\ client' = got.client
          /\ clients_created' = got.made
          /\ IF got.raised
             THEN /\ calls' = [calls EXCEPT ![i].pc = "raised",
                                            ![i].response = Raised("ValueError")]
                  /\ running' = NoCall
             ELSE /\ calls' = [calls EXCEPT ![i].pc = "calling"]
                  /\ running' = running
    /\ UNCHANGED <<engine_vars, api_key>>

\* content = response.choices[0].message.content, the reply of
\* chat.completions.create
CallCreate(i) ==
    /\ running = i
    /\ calls[i].pc = "calling"
    /\ \E c \in CallReplies :
           calls' = [calls EXCEPT ![i].pc = "replied", ![i].content = c]
    /\ UNCHANGED <<engine_vars, api_key, client, clients_created, running>>

\* return self.parse_response(content)
CallParseResponse(i) ==
    /\ running = i
    /\ calls[i].pc = "replied"
    /\ calls' = [calls EXCEPT ![i].pc = "returned",
                              ![i].response = parse_response(calls[i].content)]
    /\ running' = NoCall
    /\ UNCHANGED <<engine_vars, api_key, client, clients_created>>

Generate(i) ==
    \/ Enter(i)
    \/ CallBuildPrompt(i)
    \/ CallGetPrompt(i)
    \/ CallClient(i)
    \/ CallCreate(i)
    \/ CallParseResponse(i)

NextService == \E i \in Invocations : Generate(i)

SpecService == InitService /\ [][NextService]_vars

(***************************************************************************)
(* Scoring the texts at the edges of the rules.                            *)
(***************************************************************************)
InitEdge ==
    /\ pc = "text"
    /\ \E t \in EdgeTexts : subject = t[1] /\ body = t[2]
    /\ raw = FormDefaults
    /\ request = FormDefaults
    /\ parts = <<>>
    /\ prompt = ""
    /\ content = <<>>
    /\ response = NoResponse
    /\ spam = NoSpam
    /\ system_prompt = <<>>
    /\ api_key = TRUE
    /\ IdleService

SpecEdge == InitEdge /\ [][NextScore]_vars

(***************************************************************************)
(* Properties.                                                             *)
(***************************************************************************)
Constructed == pc \in {"constructed", "compiled"}

\* the bucket the thresholds <20, <40, <60, <80, else assign to v
ExpectedBucket(v) ==
    CASE v \in 0..19 -> 1
      [] v \in 20..39 -> 2
      [] v \in 40..59 -> 3
      [] v \in 60..79 -> 4
      [] v \in 80..100 -> 5

WithSlider(f, v) == [FormDefaults EXCEPT ![f] = v]

\* C1: for each of the five slider axes and every v in 0..100 the level
\* classifier returns the axis's category for v's bucket (0..19 the 1st,
\* 20..39 the 2nd, 40..59 the 3rd, 60..79 the 4th, 80..100 the 5th); the five
\* categories of an axis are distinct, so the classifier differs between 19
\* and 20, and 99 and 100 both give the highest category.
C1_LevelClassifier ==
    /\ Constructed =>
          /\ tone_level(request) = ToneLevel[ExpectedBucket(request.tone)]
          /\ length_level(request) = LengthLevel[ExpectedBucket(request.length)]
          /\ urgency_level(request) = UrgencyLevel[ExpectedBucket(request.urgency)]
          /\ cta_strength_level(request)
                = CTAStrength[ExpectedBucket(request.cta_strength)]
          /\ politeness_level(request)
                = PolitenessLevel[ExpectedBucket(request.politeness)]
    /\ tone_level(WithSlider("tone", 19)) # tone_level(WithSlider("tone", 20))
    /\ length_level(WithSlider("length", 19))
          # length_level(WithSlider("length", 20))
    /\ urgency_level(WithSlider("urgency", 19))
          # urgency_level(WithSlider("urgency", 20))
    /\ cta_strength_level(WithSlider("cta_strength", 19))
          # cta_strength_level(WithSlider("cta_strength", 20))
    /\ politeness_level(WithSlider("politeness", 19))
          # politeness_level(WithSlider("politeness", 20))
    /\ tone_level(WithSlider("tone", 20)) = ToneLevel[2]
    /\ tone_level(WithSlider("tone", 99)) = ToneLevel[5]
    /\ tone_level(WithSlider("tone", 100)) = ToneLevel[5]
    /\ urgency_level(WithSlider("urgency", 99)) = "critical"
    /\ urgency_level(WithSlider("urgency", 100)) = "critical"

\* a request whose tone sits on a threshold was constructed and classified
C1_Witness ==
    /\ pc = "compiled"
    /\ request.tone = 20
    /\ tone_level(request) = "formal"
    /\ parts[2] = Part("\n- Tone: ", "formal but approachable")

SliderInRange(v) == v \in 0..100

\* C2: a request with any slider outside 0..100, or any categorical field
\* outside its enumeration, is rejected at construction: no request object
\* is produced from it.
C2_InvalidRejected ==
    (/\ pc # "form"
     /\ \/ \E f \in SliderFields : ~SliderInRange(raw[f])
        \/ \E f \in DOMAIN EnumOf : raw[f] \notin EnumOf[f])
    => pc = "rejected"

\* a form with an unknown language was submitted and rejected
C2_Witness ==
    /\ pc = "rejected"
    /\ raw.language = UnknownValue
    /\ \A f \in SliderFields : SliderInRange(raw[f])

\* the nearest bound of [0, 100]
Clamp(v) == IF v < 0 THEN 0 ELSE IF v > 100 THEN 100 ELSE v

\* C3 as stated: every slider value is clamped to [0,100] at construction,
\* so a form whose categorical fields are valid always yields a request,
\* holding the nearest bound for a slider value below 0 or above 100.
C3_ClampedAtConstruction ==
    (pc # "form" /\ \A f \in DOMAIN EnumOf : raw[f] \in EnumOf[f])
    => /\ Constructed
       /\ \A f \in SliderFields : request[f] = Clamp(raw[f])

\* C3 amended: no slider value is clamped at construction; a slider value
\* below 0 or above 100 makes construction fail, so every constructed request
\* holds its six sliders exactly as submitted, each within 0..100.
C3_RangeValidated ==
    /\ Constructed =>
          \A f \in SliderFields :
              SliderInRange(request[f]) /\ request[f] = raw[f]
    /\ (pc # "form" /\ \E f \in SliderFields : ~SliderInRange(raw[f]))
          => ~Constructed

\* a form with a slider above 100 was submitted and rejected
C3_Witness ==
    /\ pc = "rejected"
    /\ raw.urgency = 101
    /\ \A f \in DOMAIN EnumOf : raw[f] \in EnumOf[f]

\* C4: the score is an integer with 0 <= score <= 100 for every subject and
\* body, and is exactly 100 when the rules triggered add up to more than 100.
C4_ScoreCapped ==
    pc = "scored" =>
        /\ spam.score \in 0..100
        /\ Accumulated(subject, body).score > 100 => spam.score = 100

\* a text whose triggered rules add up to more than 100 was scored
C4_Witness ==
    /\ pc = "scored"
    /\ Accumulated(subject, body).score > 100
    /\ spam.score = 100

\* C5: parse_response returns a result for every reply text; no reply makes
\* it raise.
C5_NeverRaises == pc = "parsed" => response.raised = "none"

\* the reply as json.loads decodes it
Decoded == json_loads(content)

IsObject == Decoded.ok /\ Decoded.val.t = "dict"

\* the indices of the object's members named key
MembersNamed(key) ==
    {i \in 1..Len(Decoded.val.items) : Decoded.val.items[i].key = key}

HasField(key) == MembersNamed(key) # {}

\* the value the decoded object holds for key (the last member so named)
FieldValue(key) ==
    LET last == CHOOSE i \in MembersNamed(key) :
                    \A j \in MembersNamed(key) : j <= i
    IN Decoded.val.items[last].val

IsString(v) == v.t = "str"

IsStringList(v) ==
    v.t = "list" /\ \A i \in 1..Len(v.items) : IsString(v.items[i])

\* C6: for every reply text that fails JSON decoding (for example the text
\* not json), parse_response returns a result with subject "Generated Email",
\* no subject variants, and the raw reply text, unchanged, as body.
C6_FallbackOnDecodeFailure ==
    /\ (pc = "parsed" /\ ~Decoded.ok) =>
          /\ response.raised = "none"
          /\ response.subject = <<"G","e","n","e","r","a","t","e","d"," ","E","m","a","i","l">>
          /\ response.subject_variants = <<>>
          /\ response.body = content
    /\ (pc = "parsed" /\ content \in {<<"n","o","t"," ","j","s","o","n">>, <<" ","n","o","t"," ","j","s","o","n"," ">>}) =>
          /\ response.raised = "none"
          /\ response.subject = <<"G","e","n","e","r","a","t","e","d"," ","E","m","a","i","l">>
          /\ response.subject_variants = <<>>
          /\ response.body = content

\* the text " not json " (blanks included) was parsed, and kept whole as body
C6_Witness ==
    /\ pc = "parsed"
    /\ content = <<" ","n","o","t"," ","j","s","o","n"," ">>
    /\ ~Decoded.ok
    /\ response.subject = <<"G","e","n","e","r","a","t","e","d"," ","E","m","a","i","l">>
    /\ response.body = <<" ","n","o","t"," ","j","s","o","n"," ">>

\* C7: for every reply text that is a JSON object with string fields subject
\* and body (and subject_variants, when present, a list of strings),
\* parse_response returns a result whose subject and body are those field
\* values and whose subject variants are that list, or the empty list when
\* the field is absent; {"subject":"Hi","body":"Hello"} gives subject Hi,
\* body Hello and no variants.
C7_FieldsOfObject ==
    /\ (/\ pc = "parsed"
        /\ IsObject
        /\ HasField(<<"s","u","b","j","e","c","t">>) /\ IsString(FieldValue(<<"s","u","b","j","e","c","t">>))
        /\ HasField(<<"b","o","d","y">>) /\ IsString(FieldValue(<<"b","o","d","y">>))
        /\ HasField(<<"s","u","b","j","e","c","t","_","v","a","r","i","a","n","t","s">>)
              => IsStringList(FieldValue(<<"s","u","b","j","e","c","t","_","v","a","r","i","a","n","t","s">>)))
       => /\ response.raised = "none"
          /\ response.subject = FieldValue(<<"s","u","b","j","e","c","t">>).s
          /\ response.body = FieldValue(<<"b","o","d","y">>).s
          /\ response.subject_variants =
                IF HasField(<<"s","u","b","j","e","c","t","_","v","a","r","i","a","n","t","s">>)
                THEN [i \in 1..Len(FieldValue(<<"s","u","b","j","e","c","t","_","v","a","r","i","a","n","t","s">>).items) |->
                         FieldValue(<<"s","u","b","j","e","c","t","_","v","a","r","i","a","n","t","s">>).items[i].s]
                ELSE <<>>
    /\ (pc = "parsed" /\ content = <<"{","\"","s","u","b","j","e","c","t","\"",":","\"","H","i","\"",",","\"","b","o","d","y","\"",":","\"","H","e","l","l","o","\"","}">>) =>
          /\ response.raised = "none"
          /\ response.subject = <<"H","i">>
          /\ response.body = <<"H","e","l","l","o">>
          /\ response.subject_variants = <<>>

\* a reply object with all three fields was parsed into a result holding them
C7_Witness ==
    /\ pc = "parsed"
    /\ content = <<"{","\"","s","u","b","j","e","c","t","\"",":","\"","H","i","\"",",","\"","s","u","b","j","e","c","t","_","v","a","r","i","a","n","t","s","\"",":","[","\"","H","e","y","\"",","," ","\"","H","e","l","l","o"," ","t","h","e","r","e","\"","]",",","\"","b","o","d","y","\"",":","\"","H","e","l","l","o","\"","}">>
    /\ response.raised = "none"
    /\ response.subject = <<"H","i">>
    /\ response.subject_variants = << <<"H","e","y">>, <<"H","e","l","l","o"," ","t","h","e","r","e">> >>
    /\ response.body = <<"H","e","l","l","o">>

\* C8: every result parse_response returns, on the decoded path and on the
\* fallback path alike, carries the risk score and warnings the scorer gives
\* for the subject and body stored in that same result.
C8_ScorerNeverSkipped ==
    (pc = "parsed" /\ response.raised = "none") =>
        /\ response.spam_score
              = calculate_spam_score(response.subject, response.body).score
        /\ response.spam_warnings
              = calculate_spam_score(response.subject, response.body).warnings

\* a reply that is not JSON was parsed by the fallback and scored above zero
C8_Witness ==
    /\ pc = "parsed"
    /\ ~Decoded.ok
    /\ response.raised = "none"
    /\ response.body = <<"F","R","E","E"," ","M","O","N","E","Y","!","!","!"," ","c","l","i","c","k"," ","h","e","r","e"," ","h","t","t","p",":","/","/","a",".","i","o">>
    /\ response.spam_score > 0
    /\ response.spam_warnings # <<>>

\* the prefixes of the directive lines, in the order the block lists them
DirectiveOrder ==
    << "\n- IMPORTANT: Write the entire email in ",
       "\n- Tone: ",
       "- Length: ",
       "- Politeness: ",
       "- Call-to-action: ",
       "- Urgency: ",
       "- Audience: ",
       "- Purpose: ",
       "- Industry: ",
       "- Relationship: ",
       "- Response type: ",
       "- Format: Use bullet points (with dashes -) and numbered lists where appropriate to organize information clearly",
       "- Salutation: ",
       "- Sign-off: ",
       "- Recipient name: ",
       "- Sender name (for signature): ",
       "- Include a natural reference to an attachment (e.g., 'Please find attached...' or 'I have attached...')",
       "- MUST include these keywords/phrases naturally: ",
       "\n- This is a REPLY to the following email:\n" \o CodeFence \o "\n",
       "\n- Additional instructions: " >>

IsDirective(pre) == \E k \in 1..Len(DirectiveOrder) : DirectiveOrder[k] = pre

Rank(pre) == CHOOSE k \in 1..Len(DirectiveOrder) : DirectiveOrder[k] = pre

\* C9: the compiled block starts with the header line and then lists the
\* active directives in one fixed relative order (language, tone, length,
\* politeness, call-to-action, urgency, audience, purpose, industry,
\* relationship, response type, formatting flag, salutation, sign-off,
\* recipient name, sender name, attachment reference, keywords, reply
\* context, custom instructions): whichever subset is active, no directive
\* comes before one that precedes it in this list, the prompt is these
\* lines joined by newlines, and compiling the same request again gives the
\* same prompt.
C9_DirectiveOrder ==
    pc = "compiled" =>
        /\ Len(parts) >= 1
        /\ parts[1] = [pre |-> "Generate an email with the following specifications:",
                       val |-> ""]
        /\ \A i \in 2..Len(parts) : IsDirective(parts[i].pre)
        /\ \A i, j \in 2..Len(parts) :
               i < j => Rank(parts[i].pre) < Rank(parts[j].pre)
        /\ prompt = Join([i \in 1..Len(parts) |-> parts[i].pre \o parts[i].val],
                         "\n")
        /\ prompt = build_prompt(request)

\* a request with all twenty directives active was compiled
C9_Witness ==
    /\ pc = "compiled"
    /\ Len(parts) = Len(DirectiveOrder) + 1
    /\ \A k \in 1..Len(DirectiveOrder) : parts[k + 1].pre = DirectiveOrder[k]

HasPart(k) == \E i \in 1..Len(parts) : parts[i].pre = DirectiveOrder[k]

\* the directives emitted for every request: tone, length, politeness,
\* call-to-action, salutation, sign-off
AlwaysEmitted == {2, 3, 4, 5, 13, 14}

\* the two flag directives, whose line is the fixed text alone
FlagDirectives == {12, 17}

\* C10: a directive line is emitted only for an active field: no line for an
\* empty free-text field, a false flag, the default language, an urgency
\* that classifies to none, a general audience, purpose or industry, an
\* unknown relationship or a response type of none; no line carries an empty
\* value; and a request with every optional field neutral compiles to the
\* header and the six directives every request has.
C10_OnlyActiveDirectives ==
    pc = "compiled" =>
        /\ request.language = "english" => ~HasPart(1)
        /\ urgency_level(request) = "none" => ~HasPart(6)
        /\ request.audience_type = "general" => ~HasPart(7)
        /\ request.purpose = "general" => ~HasPart(8)
        /\ request.industry = "general" => ~HasPart(9)
        /\ request.recipient_relationship = "unknown" => ~HasPart(10)
        /\ request.response_type = "none" => ~HasPart(11)
        /\ ~request.use_lists => ~HasPart(12)
        /\ request.recipient_name = <<>> => ~HasPart(15)
        /\ request.sender_name = <<>> => ~HasPart(16)
        /\ ~request.include_attachment_reference => ~HasPart(17)
        /\ request.keywords_to_include = <<>> => ~HasPart(18)
        /\ request.incoming_email = <<>> => ~HasPart(19)
        /\ request.custom_instructions = <<>> => ~HasPart(20)
        /\ \A i \in 2..Len(parts) :
               parts[i].val \in {"", None}
                   => \E k \in FlagDirectives : parts[i].pre = DirectiveOrder[k]
        /\ (/\ request.language = "english"
            /\ urgency_level(request) = "none"
            /\ request.audience_type = "general"
            /\ request.purpose = "general"
            /\ request.industry = "general"
            /\ request.recipient_relationship = "unknown"
            /\ request.response_type = "none"
            /\ ~request.use_lists
            /\ ~request.include_attachment_reference
            /\ request.recipient_name = <<>>
            /\ request.sender_name = <<>>
            /\ request.keywords_to_include = <<>>
            /\ request.incoming_email = <<>>
            /\ request.custom_instructions = <<>>)
           => {k \in 1..Len(DirectiveOrder) : HasPart(k)} = AlwaysEmitted

\* the form's defaults were compiled: the header and six directives only
C10_Witness ==
    /\ pc = "compiled"
    /\ request = FormDefaults
    /\ Len(parts) = 7
    /\ \A k \in 1..Len(DirectiveOrder) : HasPart(k) <=> k \in AlwaysEmitted

\* t.endswith(p)
EndsWith(t, p) == Len(p) <= Len(t) /\ MatchAt(p, t, Len(t) - Len(p) + 1)

\* the sentence each preset's template opens with
TemplateOpening ==
    [general |-> <<"Y","o","u"," ","a","r","e"," ","a","n"," ","e","x","p","e","r","t"," ","e","m","a","i","l"," ","w","r","i","t","e","r",".">>,
     application |-> <<"Y","o","u"," ","a","r","e"," ","a","n"," ","e","x","p","e","r","t"," ","a","t"," ","w","r","i","t","i","n","g"," ","j","o","b"," ","a","n","d"," ","o","p","p","o","r","t","u","n","i","t","y"," ","a","p","p","l","i","c","a","t","i","o","n","s",".">>,
     introduction |-> <<"Y","o","u"," ","a","r","e"," ","a","n"," ","e","x","p","e","r","t"," ","a","t"," ","w","r","i","t","i","n","g"," ","i","n","t","r","o","d","u","c","t","i","o","n"," ","e","m","a","i","l","s",".">>,
     cold_email |-> <<"Y","o","u"," ","a","r","e"," ","a","n"," ","e","x","p","e","r","t"," ","a","t"," ","w","r","i","t","i","n","g"," ","c","o","l","d"," ","o","u","t","r","e","a","c","h"," ","e","m","a","i","l","s",".">>,
     follow_up |-> <<"Y","o","u"," ","a","r","e"," ","a","n"," ","e","x","p","e","r","t"," ","a","t"," ","w","r","i","t","i","n","g"," ","f","o","l","l","o","w","-","u","p"," ","e","m","a","i","l","s",".">>]

\* the preset whose template a preset value selects
TemplateOf(preset) ==
    IF preset \in DOMAIN TemplateOpening THEN preset ELSE "general"

\* the output-format block asks for subject, two subject_variants and body
FormatBlockAsksFor(block) ==
    /\ Contains(<<"\"","s","u","b","j","e","c","t","\"",":"," ","\"">>, block)
    /\ Contains(<<"\"","s","u","b","j","e","c","t","_","v","a","r","i","a","n","t","s","\"",":"," ","[","\"","A","l","t","e","r","n","a","t","i","v","e"," ","s","u","b","j","e","c","t"," ","1","\"",","," ","\"","A","l","t","e","r","n","a","t","i","v","e"," ","s","u","b","j","e","c","t"," ","2","\"","]">>, block)
    /\ Contains(<<"\"","b","o","d","y","\"",":"," ","\"">>, block)
    /\ Contains(<<"e","x","a","c","t","l","y"," ","2"," ","a","l","t","e","r","n","a","t","i","v","e"," ","s","u","b","j","e","c","t"," ","l","i","n","e","s"," ","i","n"," ","s","u","b","j","e","c","t","_","v","a","r","i","a","n","t","s">>, block)

\* C11: the system role template is a function of the preset alone: each of
\* the five presets selects its own template whatever the other fields of
\* the form are, every template ends with the same output-format block
\* (subject, exactly 2 subject_variants, body), and a preset value outside
\* the template table selects the general template.
C11_TemplateByPreset ==
    /\ DOMAIN PROMPTS = DOMAIN TemplateOpening
    /\ \A p, q \in DOMAIN PROMPTS : p # q => PROMPTS[p] # PROMPTS[q]
    /\ FormatBlockAsksFor(JSON_FORMAT)
    /\ pc = "selected" =>
          /\ system_prompt = PROMPTS[TemplateOf(raw.preset)]
          /\ startswith(system_prompt, TemplateOpening[TemplateOf(raw.preset)])
          /\ EndsWith(system_prompt, JSON_FORMAT)

\* a form with an unknown preset, and other fields off their defaults, got
\* the general template
C11_Witness ==
    /\ pc = "selected"
    /\ raw.preset = UnknownValue
    /\ raw.tone = 100
    /\ raw.language = "french"
    /\ startswith(system_prompt, <<"Y","o","u"," ","a","r","e"," ","a","n"," ","e","x","p","e","r","t"," ","e","m","a","i","l"," ","w","r","i","t","e","r",".">>)
    /\ EndsWith(system_prompt, JSON_FORMAT)

\* the phrases of a tier that occur in the text
HitsOf(triggers, text) ==
    {i \in 1..Len(triggers) : Contains(triggers[i], text)}

HighWarning(phrase) == "High-risk phrase: '" \o Str(phrase) \o "'"

MediumWarning(phrase) == "Medium-risk phrase: '" \o Str(phrase) \o "'"

\* how many times w occurs in the list of warnings
Occurrences(w, warnings) ==
    Cardinality({k \in 1..Len(warnings) : warnings[k] = w})

\* the warnings a phrase of any tier could be named by
PhraseWarnings ==
    {HighWarning(spam_triggers_high[i]) : i \in 1..Len(spam_triggers_high)}
    \cup {MediumWarning(spam_triggers_medium[i]) : i \in 1..Len(spam_triggers_medium)}
    \cup {HighWarning(spam_triggers_low[i]) : i \in 1..Len(spam_triggers_low)}
    \cup {MediumWarning(spam_triggers_low[i]) : i \in 1..Len(spam_triggers_low)}
    \cup {"Low-risk phrase: '" \o Str(spam_triggers_low[i]) \o "'" :
             i \in 1..Len(spam_triggers_low)}

\* C12: each High-risk phrase contained in the matched text adds 10 points
\* and one warning naming it, each Medium-risk phrase 5 points and one
\* warning, each Low-risk phrase 2 points and no warning; distinct phrases
\* count independently, and a phrase occurring several times counts once.
C12_PhraseTiers ==
    pc = "scored" =>
        LET text == ScoreText(subject, body)
            high == HitsOf(spam_triggers_high, text)
            medium == HitsOf(spam_triggers_medium, text)
            low == HitsOf(spam_triggers_low, text)
            phrases == AfterPhrases(text)
        IN /\ phrases.score = 10 * Cardinality(high) + 5 * Cardinality(medium)
                                + 2 * Cardinality(low)
           /\ Len(phrases.warnings) = Cardinality(high) + Cardinality(medium)
           /\ \A i \in 1..Len(spam_triggers_high) :
                  Occurrences(HighWarning(spam_triggers_high[i]), spam.warnings)
                      = IF i \in high THEN 1 ELSE 0
           /\ \A i \in 1..Len(spam_triggers_medium) :
                  Occurrences(MediumWarning(spam_triggers_medium[i]), spam.warnings)
                      = IF i \in medium THEN 1 ELSE 0
           /\ Cardinality({k \in 1..Len(spam.warnings) :
                              spam.warnings[k] \in PhraseWarnings})
                  = Cardinality(high) + Cardinality(medium)
           /\ Accumulated(subject, body).score >= phrases.score
           /\ Accumulated(subject, body).score - phrases.score
                  = AfterChecks(subject, body, text,
                                [score |-> 0, warnings |-> <<>>]).score

\* a text with phrases of all three tiers, one of them occurring twice, was
\* scored: free money and act now (twice each), dear friend and special
\* offer, and free, offer, !!! and ???
C12_Witness ==
    /\ pc = "scored"
    /\ subject = <<"F","R","E","E"," ","M","O","N","E","Y","!","!","!"," ","A","C","T"," ","N","O","W","F","R","E","E"," ","M","O","N","E","Y","!","!","!"," ","A","C","T"," ","N","O","W">>
    /\ body = <<"D","e","a","r"," ","f","r","i","e","n","d",","," ","a"," ","s","p","e","c","i","a","l"," ","o","f","f","e","r","?","?","?">>
    /\ count(ScoreText(subject, body), <<"f","r","e","e"," ","m","o","n","e","y">>) = 2
    /\ AfterPhrases(ScoreText(subject, body)).score = 38
    /\ Occurrences("High-risk phrase: 'free money'", spam.warnings) = 1

\* lowercase(subject followed directly by body)
DirectText == lower(subject \o body)

\* lowercase(subject, one space, body)
JoinedText == lower(subject \o <<" ">> \o body)

\* the points of the phrases contained in a text
PhrasePoints(text) ==
    10 * Cardinality(HitsOf(spam_triggers_high, text))
    + 5 * Cardinality(HitsOf(spam_triggers_medium, text))
    + 2 * Cardinality(HitsOf(spam_triggers_low, text))

Warned(w) == \E k \in 1..Len(spam.warnings) : spam.warnings[k] = w

UrlsIn(text) ==
    count(text, <<"h","t","t","p",":","/","/">>) + count(text, <<"h","t","t","p","s",":","/","/">>) + count(text, <<"w","w","w",".">>)

UrlWarning(n) == "High URL density (" \o ToString(n) \o " links)"

\* the phrase, burst-punctuation and URL rules read the text, the
\* capitalization and exclamation rules the subject as given
RulesRead(text) ==
    /\ \A i \in 1..Len(spam_triggers_high) :
           Warned(HighWarning(spam_triggers_high[i]))
               <=> Contains(spam_triggers_high[i], text)
    /\ \A i \in 1..Len(spam_triggers_medium) :
           Warned(MediumWarning(spam_triggers_medium[i]))
               <=> Contains(spam_triggers_medium[i], text)
    /\ AfterPhrases(ScoreText(subject, body)).score = PhrasePoints(text)
    /\ Warned("Excessive punctuation detected")
           <=> (Contains(<<"!","!","!">>, text) \/ Contains(<<"?","?","?">>, text))
    /\ Warned(UrlWarning(UrlsIn(text))) <=> UrlsIn(text) > 3
    /\ Warned("Excessive capitals in subject line")
           <=> (2 * Cardinality({k \in 1..Len(subject) : isupper(subject[k])})
                    > Len(subject)
                /\ Len(subject) > 5)
    /\ Warned("Multiple exclamation marks in subject")
           <=> Cardinality({k \in 1..Len(subject) : subject[k] = "!"}) > 1

\* C13 as stated: the text used for phrase matching, the burst-punctuation
\* check and the URL count is lowercase(subject followed directly by body),
\* a phrase being counted if and only if it is a substring of that text,
\* while the capitalization and exclamation checks use the unmodified
\* subject.
C13_DirectConcatenation == pc = "scored" => RulesRead(DirectText)

\* C13 amended: the text used for phrase matching, the burst-punctuation
\* check and the URL count is lowercase(subject, one space, body), a phrase
\* being counted if and only if it is a substring of that text, while the
\* capitalization and exclamation checks use the unmodified subject.
C13_SpaceJoined == pc = "scored" => RulesRead(JoinedText)

\* subject free and body money were scored: the phrase free money is counted
\* though the subject followed directly by the body does not contain it
C13_Witness ==
    /\ pc = "scored"
    /\ subject = <<"f","r","e","e">>
    /\ body = <<"m","o","n","e","y">>
    /\ ~Contains(<<"f","r","e","e"," ","m","o","n","e","y">>, DirectText)
    /\ Warned("High-risk phrase: 'free money'")
    /\ spam.score = 12

\* one character of s.upper()
upper_char(c) ==
    IF \E i \in 1..Len(LowerLetters) : LowerLetters[i] = c
    THEN UpperLetters[CHOOSE i \in 1..Len(LowerLetters) : LowerLetters[i] = c]
    ELSE c

\* s.upper()
upper(s) == [i \in 1..Len(s) |-> upper_char(s[i])]

UppercaseIn(s) == Cardinality({k \in 1..Len(s) : isupper(s[k])})

\* more than half of the subject's characters are uppercase, and the subject
\* is longer than 5
CapitalsCondition(s) == 2 * UppercaseIn(s) > Len(s) /\ Len(s) > 5

CapitalsWarning == "Excessive capitals in subject line"

\* C14: the scorer adds 15 points and the excessive-capitals warning exactly
\* when the uppercase characters of the original subject divided by its
\* length exceed 0.5 and the length exceeds 5; a subject of length 5 or less,
\* or with exactly half its characters uppercase, never triggers the rule,
\* and the body's capitalization never affects it.
C14_CapitalsRule ==
    pc = "scored" =>
        /\ Warned(CapitalsWarning) <=> CapitalsCondition(subject)
        /\ Occurrences(CapitalsWarning, spam.warnings) <= 1
        /\ Accumulated(subject, body).score
              = Accumulated(lower(subject), body).score
                + (IF CapitalsCondition(subject) THEN 15 ELSE 0)
        /\ Len(subject) <= 5 => ~Warned(CapitalsWarning)
        /\ 2 * UppercaseIn(subject) = Len(subject) => ~Warned(CapitalsWarning)
        /\ \A b \in {lower(body), upper(body)} :
               Occurrences(CapitalsWarning,
                           calculate_spam_score(subject, b).warnings)
                   = Occurrences(CapitalsWarning, spam.warnings)

\* a subject of length 6 with 4 uppercase characters triggered the rule under
\* a lowercase body
C14_Witness ==
    /\ pc = "scored"
    /\ subject = <<"A","B","C","D","e","f">>
    /\ body = <<"p","l","e","a","s","e"," ","s","e","e"," ","a","t","t","a","c","h","e","d">>
    /\ spam = [score |-> 15, warnings |-> <<CapitalsWarning>>]

RECURSIVE HighWarningsIn(_, _)
\* the warnings of the High-risk phrases of the list found in the text, in
\* the order of the list
HighWarningsIn(triggers, text) ==
    IF triggers = <<>> THEN <<>>
    ELSE (IF Contains(Head(triggers), text)
          THEN <<HighWarning(Head(triggers))>> ELSE <<>>)
         \o HighWarningsIn(Tail(triggers), text)

RECURSIVE MediumWarningsIn(_, _)
MediumWarningsIn(triggers, text) ==
    IF triggers = <<>> THEN <<>>
    ELSE (IF Contains(Head(triggers), text)
          THEN <<MediumWarning(Head(triggers))>> ELSE <<>>)
         \o MediumWarningsIn(Tail(triggers), text)

WarningIf(cond, w) == IF cond THEN <<w>> ELSE <<>>

\* the warnings in the order the rules are evaluated
WarningsInRuleOrder ==
       HighWarningsIn(spam_triggers_high, JoinedText)
    \o MediumWarningsIn(spam_triggers_medium, JoinedText)
    \o WarningIf(CapitalsCondition(subject), CapitalsWarning)
    \o WarningIf(Cardinality({k \in 1..Len(subject) : subject[k] = "!"}) > 1,
                 "Multiple exclamation marks in subject")
    \o WarningIf(Contains(<<"!","!","!">>, JoinedText) \/ Contains(<<"?","?","?">>, JoinedText),
                 "Excessive punctuation detected")
    \o WarningIf(startswith(lower(subject), <<"r","e",":">>) /\ body = <<>>,
                 "Empty reply email")
    \o WarningIf(UrlsIn(JoinedText) > 3, UrlWarning(UrlsIn(JoinedText)))

\* C15: the warnings are listed in the order the rules are evaluated, not in
\* the order of the text: the High-risk phrase warnings in the order of the
\* rule table, then the Medium-risk ones, then excessive capitals, multiple
\* exclamation marks, excessive punctuation, empty reply, and URL density
\* last; Low-risk phrases and the forward prefix never add a warning.
C15_WarningOrder == pc = "scored" => spam.warnings = WarningsInRuleOrder

\* a forwarded subject holding free money before act now, a Medium and Low
\* phrases, scored with a body of four links: act now is listed first
C15_Witness ==
    /\ pc = "scored"
    /\ subject = <<"F","w","d",":"," ","F","R","E","E"," ","M","O","N","E","Y","!","!","!"," ","A","C","T"," ","N","O","W">>
    /\ body = <<"h","t","t","p",":","/","/","a",".","i","o"," ","h","t","t","p","s",":","/","/","b",".","i","o"," ","w","w","w",".","c",".","i","o"," ","w","w","w",".","d",".","i","o"," ">>
    /\ Contains(<<"f","r","e","e">>, JoinedText)
    /\ spam.warnings =
          << "High-risk phrase: 'act now'",
             "High-risk phrase: 'free money'",
             "Excessive capitals in subject line",
             "Multiple exclamation marks in subject",
             "Excessive punctuation detected",
             "High URL density (4 links)" >>

\* the text with its letters alternately upper and lower case
AlternateCase(s) ==
    [i \in 1..Len(s) |-> IF i % 2 = 1 THEN upper_char(s[i]) ELSE lower_char(s[i])]

\* texts that differ from s in letter case only
CaseVariants(s) == {lower(s), upper(s), AlternateCase(s)}

\* the warnings but the excessive-capitals one
WithoutCapitals(warnings) ==
    SelectSeq(warnings, LAMBDA w : w # CapitalsWarning)

CapitalsPointsOf(s) == IF CapitalsCondition(s) THEN 15 ELSE 0

Distance(a, b) == IF a < b THEN b - a ELSE a - b

\* C16: for two inputs that differ only in letter case every rule but the
\* capitalization rule triggers identically, so the scores and the warning
\* lists differ at most by that rule's 15 points and its one warning; and
\* changing only the case of the body never changes the result.
C16_CaseInsensitive ==
    pc = "scored" =>
        /\ \A s \in CaseVariants(subject), b \in {lower(body), upper(body)} :
               LET other == calculate_spam_score(s, b)
               IN /\ WithoutCapitals(other.warnings)
                        = WithoutCapitals(spam.warnings)
                  /\ Len(other.warnings) - Len(WithoutCapitals(other.warnings))
                        = (IF CapitalsCondition(s) THEN 1 ELSE 0)
                  /\ Distance(other.score, spam.score) <= 15
                  /\ Accumulated(s, b).score - CapitalsPointsOf(s)
                        = Accumulated(subject, body).score
                          - CapitalsPointsOf(subject)
        /\ \A b \in CaseVariants(body) :
               calculate_spam_score(subject, b) = spam

\* the subject URGENT scored 25; in lower case it scores 10, the difference
\* being the capitalization rule
C16_Witness ==
    /\ pc = "scored"
    /\ subject = <<"U","R","G","E","N","T">>
    /\ body = <<>>
    /\ spam = [score |-> 25,
               warnings |-> <<"High-risk phrase: 'urgent'", CapitalsWarning>>]
    /\ calculate_spam_score(lower(subject), body)
          = [score |-> 10, warnings |-> <<"High-risk phrase: 'urgent'">>]

\* the steps of generate after which a local has its value
AfterBuildPrompt == {"compiled", "selected", "calling", "replied", "returned", "raised"}

AfterGetPrompt == {"selected", "calling", "replied", "returned", "raised"}

\* the locals of every invocation are what its own request and its own reply
\* give, whatever the other invocations did
OwnResults ==
    \A i \in Invocations :
        /\ calls[i].pc \in AfterBuildPrompt
              => calls[i].prompt = build_prompt(calls[i].request)
        /\ calls[i].pc \in AfterGetPrompt
              => calls[i].system_prompt = get_prompt(calls[i].request.preset)
        /\ calls[i].pc = "returned"
              => calls[i].response = parse_response(calls[i].content)
        /\ calls[i].pc = "raised" => ~api_key

\* at most one client was ever constructed, and it is the one held
OneClient ==
    /\ clients_created <= 1
    /\ client = clients_created
    /\ ~api_key => client = NoClient

\* a step writes the locals of one invocation at most
OneInvocationWritten ==
    \A i, j \in Invocations :
        (calls'[i] # calls[i] /\ calls'[j] # calls[j]) => i = j

\* a client that is set stays
ClientKept == client # NoClient => client' = client

\* C17: when several generate invocations on one service interleave in any
\* order, the prompt compiled for each request and the result parsed from
\* each reply depend on that request and that reply only; no step writes the
\* state of another invocation, and the only shared state, the lazily
\* created client, is created at most once and never replaced once set.
C17_IndependentInvocations ==
    /\ [](OwnResults /\ OneClient)
    /\ [][OneInvocationWritten /\ ClientKept]_vars

\* two invocations with different requests and different replies have both
\* returned, on the one client the first of them created
C17_Witness ==
    \E i, j \in Invocations :
        /\ calls[i].pc = "returned"
        /\ calls[j].pc = "returned"
        /\ calls[i].request # calls[j].request
        /\ calls[i].content # calls[j].content
        /\ calls[i].response # calls[j].response
        /\ client = 1
        /\ clients_created = 1

PointsIf(cond, points) == IF cond THEN points ELSE 0

\* the points of every triggered rule, each added whatever the others did
TotalPoints ==
    PhrasePoints(JoinedText)
    + PointsIf(CapitalsCondition(subject), 15)
    + PointsIf(Cardinality({k \in 1..Len(subject) : subject[k] = "!"}) > 1, 10)
    + PointsIf(Contains(<<"!","!","!">>, JoinedText) \/ Contains(<<"?","?","?">>, JoinedText), 10)
    + PointsIf(startswith(lower(subject), <<"r","e",":">>) /\ body = <<>>, 5)
    + PointsIf(startswith(lower(subject), <<"f","w",":">>)
                 \/ startswith(lower(subject), <<"f","w","d",":">>), 3)
    + PointsIf(UrlsIn(JoinedText) > 3, 10)

\* C18: the final score is min(100, total), total adding the points of every
\* triggered rule independently (High 10, Medium 5, Low 2 per phrase,
\* capitals 15, multiple exclamation marks 10, burst punctuation 10, empty
\* reply 5, forward prefix 3, more than 3 URLs 10); the subject
\* FREE MONEY!!! ACT NOW with an empty body is warned of free money, act now,
\* burst punctuation and capitals and scores at least 45; the subject
\* Meeting notes with the body Please see attached. scores 0 with no warning.
C18_ScoreIsCappedTotal ==
    pc = "scored" =>
        /\ spam.score = (IF TotalPoints < 100 THEN TotalPoints ELSE 100)
        /\ (subject = <<"F","R","E","E"," ","M","O","N","E","Y","!","!","!"," ","A","C","T"," ","N","O","W">> /\ body = <<>>) =>
              /\ Warned("High-risk phrase: 'free money'")
              /\ Warned("High-risk phrase: 'act now'")
              /\ Warned("Excessive punctuation detected")
              /\ Warned(CapitalsWarning)
              /\ spam.score >= 45
        /\ (subject = <<"M","e","e","t","i","n","g"," ","n","o","t","e","s">> /\ body = <<"P","l","e","a","s","e"," ","s","e","e"," ","a","t","t","a","c","h","e","d",".">>) =>
              spam = [score |-> 0, warnings |-> <<>>]

\* the subject FREE MONEY!!! ACT NOW was scored with an empty body: two High
\* phrases, two Low ones, capitals, exclamation marks and burst punctuation
C18_Witness ==
    /\ pc = "scored"
    /\ subject = <<"F","R","E","E"," ","M","O","N","E","Y","!","!","!"," ","A","C","T"," ","N","O","W">>
    /\ body = <<>>
    /\ TotalPoints = 59
    /\ spam.score = 59

Blank == {" ", "\t", "\n", "\r"}

RECURSIVE FieldsFrom(_, _)
\* the stretches of t between commas, from index start on
FieldsFrom(t, start) ==
    LET commas == {k \in start..Len(t) : t[k] = ","}
        next == IF commas = {} THEN Len(t) + 1
                ELSE CHOOSE k \in commas : \A j \in commas : k <= j
    IN <<SubSeq(t, start, next - 1)>>
       \o (IF next > Len(t) THEN <<>> ELSE FieldsFrom(t, next + 1))

\* the field without the blanks around it
Trimmed(f) ==
    LET inked == {k \in 1..Len(f) : f[k] \notin Blank}
    IN IF inked = {} THEN <<>>
       ELSE SubSeq(f, CHOOSE k \in inked : \A j \in inked : k <= j,
                      CHOOSE k \in inked : \A j \in inked : j <= k)

\* the entries of a keywords field: split on commas, trimmed, the empty ones
\* dropped, in their order
Entries(t) ==
    LET fields == FieldsFrom(t, 1)
        trimmed == [i \in 1..Len(fields) |-> Trimmed(fields[i])]
    IN SelectSeq(trimmed, LAMBDA e : e # <<>>)

KeywordsLine(entries) ==
    [pre |-> "- MUST include these keywords/phrases naturally: ",
     val |-> Str(JoinText(entries, <<","," ">>))]

KeywordsLinesIn(ps) ==
    {i \in 1..Len(ps) :
        ps[i].pre = "- MUST include these keywords/phrases naturally: "}

\* C19: the keywords_to_include string is split on commas, each entry is
\* stripped of surrounding whitespace, empty entries are dropped and the rest
\* are emitted in their order, joined by ", ", on one keywords line; when no
\* entry remains (the string is empty or holds only commas and whitespace)
\* no keywords line is emitted.
C19_KeywordsDirective ==
    pc = "compiled" =>
        LET entries == Entries(request.keywords_to_include)
        IN /\ entries = <<>> => KeywordsLinesIn(parts) = {}
           /\ entries # <<>> =>
                 /\ Cardinality(KeywordsLinesIn(parts)) = 1
                 /\ \A i \in KeywordsLinesIn(parts) :
                        parts[i] = KeywordsLine(entries)
           /\ request.keywords_to_include = <<" ","b","u","d","g","e","t",","," ",",","Q","3"," ","r","e","p","o","r","t"," ">> =>
                 \E i \in 1..Len(parts) :
                     PartText(parts[i]) =
                         "- MUST include these keywords/phrases naturally: budget, Q3 report"
           /\ request.keywords_to_include \in {<<>>, <<" ",","," ">>, <<",">>, <<" ">>} =>
                 KeywordsLinesIn(parts) = {}

\* a keywords field with blanks around its entries and an empty entry was
\* compiled to one line of two keywords
C19_Witness ==
    /\ pc = "compiled"
    /\ request.keywords_to_include = <<" ","b","u","d","g","e","t",","," ",",","Q","3"," ","r","e","p","o","r","t"," ">>
    /\ \E i \in 1..Len(parts) :
           parts[i] = Part("- MUST include these keywords/phrases naturally: ",
                           "budget, Q3 report")

\* the field is absent, or present with a value of its type
AbsentOrString(key) == HasField(key) => IsString(FieldValue(key))

AbsentOrStringList(key) == HasField(key) => IsStringList(FieldValue(key))

LacksAField ==
    ~HasField(<<"s","u","b","j","e","c","t">>) \/ ~HasField(<<"b","o","d","y">>) \/ ~HasField(<<"s","u","b","j","e","c","t","_","v","a","r","i","a","n","t","s">>)

\* C20: when the reply decodes to a JSON object that lacks a field,
\* parse_response substitutes field by field and does not take the fallback
\* as a whole: a missing subject becomes "Generated Email", a missing body
\* the entire raw reply text, a missing subject_variants the empty list, and
\* the fields that are present are kept as given.
C20_PerFieldDefaults ==
    (/\ pc = "parsed"
     /\ IsObject
     /\ LacksAField
     /\ AbsentOrString(<<"s","u","b","j","e","c","t">>)
     /\ AbsentOrString(<<"b","o","d","y">>)
     /\ AbsentOrStringList(<<"s","u","b","j","e","c","t","_","v","a","r","i","a","n","t","s">>))
    => /\ response.raised = "none"
       /\ response.subject =
             IF HasField(<<"s","u","b","j","e","c","t">>) THEN FieldValue(<<"s","u","b","j","e","c","t">>).s
             ELSE <<"G","e","n","e","r","a","t","e","d"," ","E","m","a","i","l">>
       /\ response.body =
             IF HasField(<<"b","o","d","y">>) THEN FieldValue(<<"b","o","d","y">>).s ELSE content
       /\ response.subject_variants =
             IF HasField(<<"s","u","b","j","e","c","t","_","v","a","r","i","a","n","t","s">>)
             THEN [i \in 1..Len(FieldValue(<<"s","u","b","j","e","c","t","_","v","a","r","i","a","n","t","s">>).items) |->
                      FieldValue(<<"s","u","b","j","e","c","t","_","v","a","r","i","a","n","t","s">>).items[i].s]
             ELSE <<>>

\* an object with a subject and nothing else was parsed: the subject is
\* kept, the body is the whole reply text, blanks around it included
C20_Witness ==
    /\ pc = "parsed"
    /\ content = <<" ","{","\"","s","u","b","j","e","c","t","\"",":","\"","H","i","\"","}"," ">>
    /\ response.raised = "none"
    /\ response.subject = <<"H","i">>
    /\ response.body = <<" ","{","\"","s","u","b","j","e","c","t","\"",":","\"","H","i","\"","}"," ">>
    /\ response.subject_variants = <<>>

====
